---- MODULE Spec2Model ----
(***************************************************************************)
(* Anicargo: the durable job queue (anicargo-library), the worker pool and *)
(* cleanup loop (anicargo-api) and the HLS orchestrator (anicargo-media).  *)
(*                                                                         *)
(* The job_queue table is the function `jobs` from row id to row.  Every   *)
(* SQL statement is one atomic step; a call that issues several statements *)
(* (enqueue_job, fetch_next_job, requeue_stuck_jobs) is one step per       *)
(* statement, with the caller's position kept in a program counter.        *)
(* Time is the clock `now`, in seconds.                                    *)
(***************************************************************************)
EXTENDS Integers, FiniteSets, Sequences, TLC

\* ---------------------------------------------------------------- bounds

\* enqueue_job calls each caller makes.
MaxCalls == 1
\* Clock advances in a behaviour.
MaxTicks == 2

\* 30-second clock advances in a behaviour of the retry scenario.
MaxBackoffTicks == 3
\* process_job calls per worker in the HLS behaviours.
MaxHlsCalls == 1
\* Requests through the rate-limit middleware, and advances of its clock.
MaxRequests == 4
MaxRateTicks == 3
\* auto_match_all runs, and manual match operations (set or clear) beside them.
MaxRuns == 1
MaxManualOps == 2
\* scan_and_index calls, and files added to or removed from media_dir.
MaxScans == 3
MaxDirChanges == 2
\* Requests for an HLS file.
MaxServes == 1
\* Requests of each client to the admin-only routes.
MaxAdminCalls == 1
\* Requests that enter the in-flight middleware.
MaxEntries == 5
\* GET /api/stream/:id requests of each client.
MaxStreamCalls == 2
\* Events of one job status stream.
MaxEvents == 3
\* Characters of an episode string, and cached episodes of a subject.
MaxStrLen == 3
MaxEpisodes == 2
\* Characters of a title.
MaxTitleLen == 3

\* Rows in job_queue when the workers start.
MaxJobs == 2

\* ------------------------------------------------------ program constants

\* fail_job: delay_secs = 30 * attempts.
BackoffSecs == 30
\* AtomicUsize arithmetic wraps around; the model's word is narrower than the
\* machine's.
UsizeRange == 65536
\* make_interval(hours => $1): one hour, in seconds.
SecsPerHour == 3600
\* ServerConfig default job_running_timeout_secs.
JobRunningTimeoutSecs == 3600
\* HlsConfig default lock_timeout_secs.
HlsLockTimeoutSecs == 3600
\* ServerConfig default max_hls_concurrency.
MaxHlsConcurrency == 2
\* rate_limit_middleware: the window, Duration::from_secs(60).
WindowSecs == 60
\* rate_limit_middleware: buckets idle for Duration::from_secs(600) are dropped.
RetainSecs == 600
\* match_episode_id: diff <= 0.01 and diff <= 1.0, in thousandths.
ExactDiff == 10
MaxDiff == 1000

\* ------------------------------------------------------------ value sets

Workers == {"api-1-0", "api-1-1"}
Callers == {"h1", "h2"}
NoWorker == "null"
NoKey == "null"
NoText == "null"
Null == -1

\* The (job_type, dedup_key) pairs the callers enqueue with.  The API uses
\* ("index", "index") for index jobs and ("hls", <media id>) for hls jobs, the
\* media id being a path segment of the request.
Requests ==
    { [job_type |-> "index", dedup_key |-> "index"],
      [job_type |-> "hls", dedup_key |-> "index"] }

\* Media ids (the payload.media_id of hls jobs).
MediaIds == {"m1", "m2"}
\* hls.lock_timeout_secs values: 0 (never take a lock over) and the default.
HlsLockTimeoutChoices == {0, HlsLockTimeoutSecs}
\* server.max_hls_concurrency values (validated > 0).
HlsConcurrencyChoices == {1, MaxHlsConcurrency}
\* No .hls.lock file.
NoLock == [mtime |-> Null, by |-> NoWorker]

\* Decodable user ids of requests (NoUser: no or no valid token) and peer IPs.
NoUser == "null"
UserIds == {"u1"}
Ips == {"a1"}
HttpRequests == [user : UserIds \cup {NoUser}, ip : Ips]
\* rate_limit_{user,ip}_per_minute values (0: no limit).
RateLimitChoices == {0, 1, 2}
\* Advances of Instant::now() between requests, in seconds.
RateSteps == {30, RetainSecs}
\* No bucket for a key in rate_limits.
NoEntry == [window_start |-> Null, count |-> 0, last_seen |-> Null]

\* Bangumi subject ids.
SubjectIds == {1, 2}
\* score_subject's result and the two thresholds, as levels of the f32 scale
\* 0.0 ..= 1.0.
ScoreLevels == 0..2
\* What filename parsing left in media_parses for a media id: a title, no
\* title, or parse_ok = false.
ParseKinds == {"titled", "untitled", "failed"}
\* No row in media_matches; no best candidate yet.
NoMatch == [method |-> "null", subject_id |-> 0, confidence |-> Null]
NoBest == [subject_id |-> 0, score |-> Null]
\* What client.search_anime can return: subjects, each with the score
\* score_subject gives it for the title.
SearchResults == UNION {[S -> ScoreLevels] : S \in SUBSET SubjectIds}

\* Eligible files (*.mkv, *.mp4) that can be in media_dir, in filename order.
Paths == {"f1", "f2"}
\* Processes that call scan_and_index: the API's job worker and the CLI.
Scanners == {"worker", "cli"}
\* The callers of auto_match_all: the worker's auto-match job, the CLI.
Matchers == {"worker", "cli"}
\* No media_files row; a row this transaction has not written; a row this
\* transaction has deleted.
NoToken == 0
Untouched == -1
Deleted == 0
\* (size, modified_at) of a file: metadata.len() and its mtime in whole seconds.
Metas == [size : {1, 2}, modified_at : {1, 2}]
\* No stored (size, modified_at).
NoMeta == [size |-> 0, modified_at |-> 0]

\* JWT role_level claims, and the role levels of api main.rs:536-538.
RoleLevels == {1, 2, 3, 5}
RoleLevelMin == 1
RoleLevelMax == 5
RoleLevelAdmin == 3
\* What a request carries as its token: nothing, a string that does not
\* decode, or a token that decodes to claims.
MissingToken == [kind |-> "missing", sub |-> NoUser, role_level |-> 0]
InvalidToken == [kind |-> "invalid", sub |-> NoUser, role_level |-> 0]
Tokens == {MissingToken, InvalidToken} \cup [kind : {"valid"}, sub : UserIds, role_level : RoleLevels]
\* config.hls_root(): cache_dir/hls, as path components from "/".
HlsRoot == <<"cache", "hls">>
\* The :file segment of /hls/:id/:file after percent-decoding, as a path: a
\* leading "/" makes it absolute, "%2F" gives it several components.
HlsFiles ==
    { [abs |-> FALSE, parts |-> <<"index.m3u8">>],
      [abs |-> FALSE, parts |-> <<"seg9.ts">>],
      [abs |-> FALSE, parts |-> <<"link">>],
      [abs |-> FALSE, parts |-> <<"..", "..", "..", "etc", "passwd">>],
      [abs |-> FALSE, parts |-> <<"..", "..", "..", "etc", "shadow">>],
      [abs |-> TRUE, parts |-> <<"etc", "passwd">>] }
\* The :id segment.
HlsIds == MediaIds \cup {".."}
NoPath == <<"null">>
NoHlsRequest == [token |-> MissingToken, id |-> "null", file |-> [abs |-> FALSE, parts |-> <<>>]]

\* The admin-only routes: POST /api/jobs/index, POST /api/jobs/auto-match,
\* POST and DELETE /api/matches/:id, GET /api/library?refresh=true.
AdminActions == {"index", "auto-match", "set-match", "clear-match", "library-refresh"}
\* A request to one of them: its token, whether its query string and JSON
\* body are accepted by the handler's extractors, and its arguments.
AdminRequests ==
    [action : AdminActions, token : Tokens, parses : BOOLEAN, media_id : {"m1"},
     subject_id : SubjectIds]
NoAdminRequest ==
    [action |-> "null", token |-> MissingToken, parses |-> FALSE, media_id |-> "m1",
     subject_id |-> 1]

\* Connections whose requests pass the in-flight middleware, and the ways a
\* request leaves it: next.run returns a success or an error response, the
\* handler panics, or the request's future is dropped (client gone).
Conns == {"c1", "c2", "c3"}
ExitPaths == {"success", "error", "panic", "cancel"}

\* ServerConfig job_max_attempts values (validated > 0; the default is 3).
MaxAttemptsChoices == {1, 2}

\* ServerConfig job_retention_hours values: 0 disables the retention sweep.
RetentionChoices == {0, 1}
\* The clock advances by one backoff unit or by one hour.
TickSteps == {BackoffSecs, SecsPerHour}

VARIABLES
    jobs,       \* job_queue: id -> row
    next_id,    \* the BIGSERIAL sequence of job_queue.id
    now,        \* NOW()
    wpc,        \* worker -> "poll" | "leasing" | "process"
    wjob,       \* worker -> the row selected (leasing) or the Job returned (process)
    epc,        \* caller -> "idle" | "insert" | "lookup" | "fallback"
    ereq,       \* caller -> the request of its current or last enqueue_job call
    eret,       \* caller -> the id its last enqueue_job call returned (0: none yet)
    ecalls,     \* caller -> calls begun
    econc,      \* caller -> callers whose last call was in progress when this one began
    equiet,     \* caller -> no row of its (type, key) left the active statuses during the call
    cpc,        \* cleanup loop -> "requeue_failed" | "requeue_retry" | "cleanup"
    job_max_attempts,    \* AppState.job_max_attempts
    job_retention_hours, \* AppState.job_retention_hours
    revoked,    \* ids of rows that requeue_stuck_jobs has taken out of running
    hpc,        \* worker -> its position in process_job's "hls" branch
    hmedia,     \* worker -> the media id of its current or last hls job
    hcalls,     \* worker -> hls jobs begun
    hconc,      \* worker -> workers whose hls call overlapped its current or last one
    hspawned,   \* worker -> its current or last call spawned the transcoder
    hls_permits,  \* AppState.hls_limit: permits available
    hls_locks,    \* AppState.hls_locks: media id -> worker holding the per-id mutex
    playlist,     \* media ids whose output directory holds index.m3u8
    lockfile,     \* media id -> the .hls.lock file (mtime, creating worker) or NoLock
    children,     \* transcoder children spawned and not yet reaped by their waiter thread
    spawns,       \* media id -> transcoder spawn events so far
    hls_lock_timeout_secs,  \* MediaConfig.hls_lock_timeout_secs
    max_hls_concurrency,    \* server.max_hls_concurrency
    rate_limits,  \* AppState.rate_limits: bucket key -> RateLimitState or NoEntry
    instant,      \* Instant::now(), in seconds
    rticks,       \* advances of instant so far
    rlog,         \* the requests handled so far: <<key, instant, response>>
    rate_limit_user_per_minute,  \* AppState.rate_limit_user_per_minute
    rate_limit_ip_per_minute,    \* AppState.rate_limit_ip_per_minute
    rate_limit_allow_users,
    rate_limit_allow_ips,
    rate_limit_block_users,
    rate_limit_block_ips,
    media_parses,      \* media_parses: media id -> ParseKinds
    media_matches,     \* media_matches: media id -> row or NoMatch
    match_candidates,  \* match_candidates rows
    bangumi_subjects,  \* ids of the cached subjects
    apc,        \* auto_match_all, per caller: its position
    arows,      \* media ids of the fetched rows still to visit
    acur,       \* media id of the row being visited
    aresults,   \* search.data still to score: subject id -> score
    asearch,    \* search.data as search_anime returned it
    abest,      \* best so far
    aopts,      \* AutoMatchOptions of the run
    aruns,      \* runs begun
    mops,       \* manual match operations done
    media_dir,    \* the eligible files in media_dir
    media_files,  \* media_files, committed: media id -> last_seen_token or NoToken
    scan_clock,   \* SystemTime::now() in nanoseconds, as a count of readings
    spc,          \* scan_and_index: each caller's position
    sall,         \* entries: what scan_media returned
    sentries,     \* entries still to visit
    stoken,       \* scan_token
    sneeds,       \* needs_parse of the entry being visited
    swrites,      \* the transaction's uncommitted media_files rows
    sparsed,      \* the transaction's uncommitted media_parses rows
    sdel,         \* rows the DELETE statement's snapshot selected
    sruns,        \* scans begun
    dir_changes,  \* changes made to media_dir
    file_meta,    \* path -> (size, mtime in epoch seconds) of the file in media_dir
    media_meta,   \* media_files, committed: media id -> (size, modified_at) or NoMeta
    smeta,        \* the transaction's uncommitted (size, modified_at) of the rows it wrote
    ssize,        \* entry.size of each entry, as scan_media read it
    smodified,    \* modified_at of the entry being visited, as modified_epoch read it
    fs_root,      \* the HLS root directory exists, with m1/index.m3u8 in it
    fs_link,      \* <root>/m1/link is a symbolic link to /etc/passwd
    fs_secret,    \* /etc/passwd exists
    hls_req,      \* the last request for an HLS file
    hls_status,   \* its response status
    hls_opened,   \* the path File::open was called with, or NoPath
    serves,       \* requests for an HLS file served
    adm_req,      \* each client's last request to an admin-only route
    adm_status,   \* its response status ("pending" while enqueue_job runs)
    adm_calls,    \* requests made by each client
    in_flight,    \* AppState.in_flight
    fpc,          \* each connection's request: "out" of the middleware or "in" it
    fdone,        \* the exit paths taken so far
    fentries,     \* requests that have entered
    stream_req,   \* each client's last GET /api/stream/:id: its token and id
    stream_resp,  \* its response ("pending" while enqueue_job runs)
    stream_calls, \* stream requests made by each client
    sse_pc,       \* each client's job status stream: "closed" | "initial" | "loop" | "ended"
    sse_id,       \* the job id of the stream
    sse_initial,  \* the snapshot the handler read before it built the stream
    sse_events,   \* the events the stream has yielded, oldest first
    episode_str,  \* match_episode_id's episode_str
    episodes,     \* match_episode_id's episodes
    matched,      \* what match_episode_id returned (Pending before the call)
    title_a,      \* a title
    title_b,      \* another title
    title_out,    \* what normalize_title and similarity returned for them
    whout,        \* worker -> what process_job returned for its job (NoOutcome before)
    reports       \* the complete_job and fail_job calls of the worker loops, oldest first

queueVars ==
    <<jobs, next_id, now, wpc, wjob, epc, ereq, eret, ecalls, econc, equiet, cpc,
      job_max_attempts, job_retention_hours, revoked>>

cfgVars == <<job_max_attempts, job_retention_hours>>

hlsVars ==
    <<hpc, hmedia, hcalls, hconc, hspawned, hls_permits, hls_locks, playlist, lockfile,
      children, spawns, hls_lock_timeout_secs, max_hls_concurrency>>

rateVars ==
    <<rate_limits, instant, rticks, rlog, rate_limit_user_per_minute,
      rate_limit_ip_per_minute, rate_limit_allow_users, rate_limit_allow_ips,
      rate_limit_block_users, rate_limit_block_ips>>

runVars == <<apc, arows, acur, aresults, asearch, abest, aopts, aruns>>

matchVars ==
    <<media_parses, media_matches, match_candidates, bangumi_subjects, runVars, mops>>

metaVars == <<file_meta, media_meta, smeta, ssize, smodified>>

scanVars ==
    <<media_dir, media_files, scan_clock, spc, sall, sentries, stoken, sneeds, swrites,
      sparsed, sdel, sruns, dir_changes, metaVars>>

servVars == <<fs_root, fs_link, fs_secret, hls_req, hls_status, hls_opened, serves>>

admVars == <<adm_req, adm_status, adm_calls>>

flightVars == <<in_flight, fpc, fdone, fentries>>

streamVars == <<stream_req, stream_resp, stream_calls>>

sseVars == <<sse_pc, sse_id, sse_initial, sse_events>>

episodeVars == <<episode_str, episodes, matched>>

titleVars == <<title_a, title_b, title_out>>

workerVars == <<whout, reports>>

lastVars == <<workerVars>>

moreVars == <<streamVars, sseVars, episodeVars, titleVars, lastVars>>

apiVars == <<rateVars, matchVars, scanVars, servVars, admVars, flightVars, moreVars>>

vars == <<queueVars, hlsVars, apiVars>>

\* -------------------------------------------------------------- job rows

ActiveStatuses == {"queued", "running", "retry"}

Ids == DOMAIN jobs

IsActive(row) == row.status \in ActiveStatuses

\* job_queue_dedup_active: UNIQUE (job_type, dedup_key)
\* WHERE status IN ('queued', 'running', 'retry').  NULL keys never conflict.
DedupIndexOff(tbl) == TRUE

DedupIndexOk(tbl) ==
    \A a, b \in DOMAIN tbl :
        (a # b /\ IsActive(tbl[a]) /\ IsActive(tbl[b])
            /\ tbl[a].dedup_key # NoKey
            /\ tbl[a].job_type = tbl[b].job_type)
        => tbl[a].dedup_key # tbl[b].dedup_key

\* A statement that would break the unique index fails and changes nothing.
Execute(tbl) == IF DedupIndexOk(tbl) THEN tbl ELSE jobs

\* INSERT INTO job_queue (job_type, status, payload, max_attempts [, dedup_key]):
\* the other columns take their defaults.
NewRow(job_type, max_attempts, dedup_key) ==
    [ job_type |-> job_type, status |-> "queued", attempts |-> 0,
      max_attempts |-> max_attempts, scheduled_at |-> now, locked_at |-> Null,
      locked_by |-> NoWorker, dedup_key |-> dedup_key, result |-> NoText,
      last_error |-> NoText, created_at |-> now, updated_at |-> now ]

Inserted(row) == [i \in Ids \cup {next_id} |-> IF i = next_id THEN row ELSE jobs[i]]

NoJob == [id |-> 0, job_type |-> "null", attempts |-> 0, max_attempts |-> 0, at |-> 0]

\* The row is locked FOR UPDATE by a fetch_next_job transaction.
Locked(id) == \E w \in Workers : wpc[w] = "leasing" /\ wjob[w].id = id

\* --------------------------------------------------------------- ghosts

\* A call stops being quiet when a row of its (job_type, dedup_key) leaves the
\* active statuses while the call is in progress.
Quiet(tbl) ==
    [e \in Callers |->
        equiet[e] /\
        ~(epc[e] # "idle" /\
          \E i \in Ids : /\ jobs[i].job_type = ereq[e].job_type
                         /\ jobs[i].dedup_key = ereq[e].dedup_key
                         /\ IsActive(jobs[i])
                         /\ (i \notin DOMAIN tbl \/ ~IsActive(tbl[i])))]

\* ---------------------------------------------------------- enqueue_job

\* (mutant) the keyed insert without its ON CONFLICT arbiter index.
InsertKeyedNoConflict(req) ==
    Inserted(NewRow(req.job_type, job_max_attempts, req.dedup_key))

\* INSERT ... ON CONFLICT (job_type, dedup_key) WHERE status IN (...) DO NOTHING
InsertKeyed(req) == Execute(Inserted(NewRow(req.job_type, job_max_attempts, req.dedup_key)))

\* (mutant) the secondary lookup matches no row.
ActiveIdsNone(req) == {}

\* SELECT id ... WHERE job_type = $1 AND dedup_key = $2 AND status IN (...)
\* ORDER BY id DESC LIMIT 1
ActiveIds(req) ==
    {i \in Ids : /\ jobs[i].job_type = req.job_type
                 /\ jobs[i].dedup_key = req.dedup_key
                 /\ IsActive(jobs[i])}

MaxOf(S) == CHOOSE m \in S : \A x \in S : x <= m

\* INSERT INTO job_queue (job_type, status, payload, max_attempts): no dedup_key.
InsertKeyless(req) == Execute(Inserted(NewRow(req.job_type, job_max_attempts, NoKey)))

InProgress == {e \in Callers : epc[e] # "idle"}

\* enqueue_job(job_type, payload, max_attempts, dedup_key) is entered.
EnqueueCall(e, req) ==
    /\ epc[e] = "idle"
    /\ ecalls[e] < MaxCalls
    /\ ecalls' = [ecalls EXCEPT ![e] = @ + 1]
    /\ epc' = [epc EXCEPT ![e] = IF req.dedup_key # NoKey THEN "insert" ELSE "fallback"]
    /\ ereq' = [ereq EXCEPT ![e] = req]
    /\ eret' = [eret EXCEPT ![e] = 0]
    /\ econc' = [f \in Callers |->
                    IF f = e THEN InProgress
                    ELSE IF f \in InProgress THEN econc[f]
                    ELSE econc[f] \ {e}]
    /\ equiet' = [equiet EXCEPT ![e] = TRUE]
    /\ UNCHANGED <<jobs, next_id, now, wpc, wjob, cpc, revoked>>

\* A handler calls enqueue_job.
EnqueueBegin(e, req) ==
    /\ EnqueueCall(e, req)
    /\ UNCHANGED <<cfgVars, hlsVars, apiVars>>

\* The keyed insert: the new row's id is returned, or nothing on conflict.
EnqueueInsert(e) ==
    /\ epc[e] = "insert"
    /\ jobs' = InsertKeyed(ereq[e])
    /\ IF next_id \in DOMAIN jobs'
       THEN /\ next_id' = next_id + 1
            /\ eret' = [eret EXCEPT ![e] = next_id]
            /\ epc' = [epc EXCEPT ![e] = "idle"]
       ELSE /\ epc' = [epc EXCEPT ![e] = "lookup"]
            /\ UNCHANGED <<next_id, eret>>
    /\ UNCHANGED <<now, wpc, wjob, ereq, ecalls, econc, equiet, cpc, cfgVars, hlsVars, apiVars, revoked>>

\* The secondary lookup of the active row after a conflict.
EnqueueLookup(e) ==
    /\ epc[e] = "lookup"
    /\ IF ActiveIds(ereq[e]) # {}
       THEN /\ eret' = [eret EXCEPT ![e] = MaxOf(ActiveIds(ereq[e]))]
            /\ epc' = [epc EXCEPT ![e] = "idle"]
       ELSE /\ epc' = [epc EXCEPT ![e] = "fallback"]
            /\ UNCHANGED eret
    /\ UNCHANGED <<jobs, next_id, now, wpc, wjob, ereq, ecalls, econc, equiet, cpc,
                   cfgVars, hlsVars, apiVars, revoked>>

\* The final insert, reached without a key or when the lookup found no active row.
EnqueueFallback(e) ==
    /\ epc[e] = "fallback"
    /\ jobs' = InsertKeyless(ereq[e])
    /\ next_id' = next_id + 1
    /\ eret' = [eret EXCEPT ![e] = next_id]
    /\ epc' = [epc EXCEPT ![e] = "idle"]
    /\ UNCHANGED <<now, wpc, wjob, ereq, ecalls, econc, equiet, cpc, cfgVars, hlsVars, apiVars, revoked>>

\* ------------------------------------------------------- fetch_next_job

\* WHERE status IN ('queued', 'retry') AND scheduled_at <= NOW()
\*   AND attempts < max_attempts
Eligible(row) ==
    /\ row.status \in {"queued", "retry"}
    /\ row.scheduled_at <= now
    /\ row.attempts < row.max_attempts

\* (mutant) a plain SELECT: locked rows are returned as well.
SelectUnlocked(id) == TRUE

\* FOR UPDATE SKIP LOCKED: rows locked by another transaction are passed over.
SkipLocked(id) == ~Locked(id)

\* ORDER BY created_at ... LIMIT 1: the rows the SELECT may return.
FetchCandidates ==
    LET rows == {i \in Ids : Eligible(jobs[i]) /\ SkipLocked(i)}
    IN  {i \in rows : \A k \in rows : jobs[i].created_at <= jobs[k].created_at}

\* (mutant) the lease adds the bound value to the stored counter, counting the
\* earlier attempts twice.
LeaseUpdateAddsAttempts(id, worker_id, attempts, at) ==
    [jobs EXCEPT ![id] = [@ EXCEPT !.status = "running", !.locked_at = at,
                                   !.locked_by = worker_id, !.attempts = @ + attempts,
                                   !.updated_at = at]]

\* UPDATE job_queue SET status = 'running', locked_at = NOW(), locked_by = $2,
\*   attempts = $3, updated_at = NOW() WHERE id = $1
LeaseUpdate(id, worker_id, attempts, at) ==
    [jobs EXCEPT ![id] = [@ EXCEPT !.status = "running", !.locked_at = at,
                                   !.locked_by = worker_id, !.attempts = attempts,
                                   !.updated_at = at]]

\* The transaction's SELECT: the row is locked until the commit.  NOW() is the
\* transaction's start time for both of its statements.
FetchSelect(w) ==
    /\ wpc[w] = "poll"
    /\ \E id \in FetchCandidates :
          wjob' = [wjob EXCEPT ![w] =
                     [id |-> id, job_type |-> jobs[id].job_type,
                      attempts |-> jobs[id].attempts,
                      max_attempts |-> jobs[id].max_attempts, at |-> now]]
    /\ wpc' = [wpc EXCEPT ![w] = "leasing"]
    /\ UNCHANGED <<jobs, next_id, now, epc, ereq, eret, ecalls, econc, equiet, cpc,
                   cfgVars, hlsVars, apiVars, revoked>>

\* No eligible row: commit, return None; the worker sleeps and polls again.
FetchNone(w) ==
    /\ wpc[w] = "poll"
    /\ FetchCandidates = {}
    /\ UNCHANGED <<queueVars, hlsVars, apiVars>>

\* The transaction's UPDATE and commit; Job { attempts: row.3 + 1, .. } is returned.
FetchUpdate(w) ==
    /\ wpc[w] = "leasing"
    /\ jobs' = LeaseUpdate(wjob[w].id, w, wjob[w].attempts + 1, wjob[w].at)
    /\ wjob' = [wjob EXCEPT ![w] = [@ EXCEPT !.attempts = @ + 1]]
    /\ wpc' = [wpc EXCEPT ![w] = "process"]
    /\ equiet' = Quiet(jobs')
    /\ UNCHANGED <<next_id, now, epc, ereq, eret, ecalls, econc, cpc, cfgVars, hlsVars, apiVars, revoked>>

\* ------------------------------------------------ complete_job, fail_job

\* (mutant) the lock columns are left as they are.
complete_job_keeps_lock(job_id, result) ==
    IF job_id \in Ids
    THEN Execute([jobs EXCEPT ![job_id] =
                    [@ EXCEPT !.status = "done", !.result = result, !.updated_at = now]])
    ELSE jobs

\* UPDATE job_queue SET status = 'done', result = $2, updated_at = NOW(),
\*   locked_at = NULL, locked_by = NULL WHERE id = $1
complete_job(job_id, result) ==
    IF job_id \in Ids
    THEN Execute([jobs EXCEPT ![job_id] =
                    [@ EXCEPT !.status = "done", !.result = result, !.updated_at = now,
                              !.locked_at = Null, !.locked_by = NoWorker]])
    ELSE jobs

\* (mutant) the last attempt is given up one attempt early.
fail_job_early(job_id, attempts, max_attempts, error) ==
    IF job_id \notin Ids THEN jobs
    ELSE IF attempts + 1 >= max_attempts
    THEN Execute([jobs EXCEPT ![job_id] =
                    [@ EXCEPT !.status = "failed", !.last_error = error,
                              !.updated_at = now, !.locked_at = Null,
                              !.locked_by = NoWorker]])
    ELSE Execute([jobs EXCEPT ![job_id] =
                    [@ EXCEPT !.status = "retry", !.last_error = error,
                              !.scheduled_at = now + BackoffSecs * attempts,
                              !.updated_at = now, !.locked_at = Null,
                              !.locked_by = NoWorker]])

\* (mutant) a constant retry delay instead of the linear backoff.
fail_job_flat_delay(job_id, attempts, max_attempts, error) ==
    IF job_id \notin Ids THEN jobs
    ELSE IF attempts >= max_attempts
    THEN Execute([jobs EXCEPT ![job_id] =
                    [@ EXCEPT !.status = "failed", !.last_error = error,
                              !.updated_at = now, !.locked_at = Null,
                              !.locked_by = NoWorker]])
    ELSE Execute([jobs EXCEPT ![job_id] =
                    [@ EXCEPT !.status = "retry", !.last_error = error,
                              !.scheduled_at = now + BackoffSecs,
                              !.updated_at = now, !.locked_at = Null,
                              !.locked_by = NoWorker]])

fail_job(job_id, attempts, max_attempts, error) ==
    IF job_id \notin Ids THEN jobs
    ELSE IF attempts >= max_attempts
    THEN Execute([jobs EXCEPT ![job_id] =
                    [@ EXCEPT !.status = "failed", !.last_error = error,
                              !.updated_at = now, !.locked_at = Null,
                              !.locked_by = NoWorker]])
    ELSE Execute([jobs EXCEPT ![job_id] =
                    [@ EXCEPT !.status = "retry", !.last_error = error,
                              !.scheduled_at = now + BackoffSecs * attempts,
                              !.updated_at = now, !.locked_at = Null,
                              !.locked_by = NoWorker]])

\* job_worker_loop: process_job returned Ok(result).  An UPDATE of a row that a
\* fetch transaction holds locked waits for that transaction's commit.
Complete(w) ==
    /\ wpc[w] = "process"
    /\ ~Locked(wjob[w].id)
    /\ jobs' = complete_job(wjob[w].id, "ok")
    /\ wpc' = [wpc EXCEPT ![w] = "poll"]
    /\ wjob' = [wjob EXCEPT ![w] = NoJob]
    /\ equiet' = Quiet(jobs')
    /\ UNCHANGED <<next_id, now, epc, ereq, eret, ecalls, econc, cpc, cfgVars, hlsVars, apiVars, revoked>>

\* job_worker_loop: process_job returned Err(message).
Fail(w) ==
    /\ wpc[w] = "process"
    /\ ~Locked(wjob[w].id)
    /\ jobs' = fail_job(wjob[w].id, wjob[w].attempts, wjob[w].max_attempts, "boom")
    /\ wpc' = [wpc EXCEPT ![w] = "poll"]
    /\ wjob' = [wjob EXCEPT ![w] = NoJob]
    /\ equiet' = Quiet(jobs')
    /\ UNCHANGED <<next_id, now, epc, ereq, eret, ecalls, econc, cpc, cfgVars, hlsVars, apiVars, revoked>>

\* ------------------------------------- requeue_stuck_jobs, cleanup_jobs

\* (mutant) the timeout comparison admits a lease exactly timeout_secs old.
StuckInclusive(row, timeout_secs) ==
    /\ row.status = "running"
    /\ row.locked_at # Null
    /\ row.locked_at <= now - timeout_secs

\* WHERE status = 'running' AND locked_at IS NOT NULL
\*   AND locked_at < NOW() - make_interval(secs => $1)
Stuck(row, timeout_secs) ==
    /\ row.status = "running"
    /\ row.locked_at # Null
    /\ row.locked_at < now - timeout_secs

\* First statement: ... AND attempts >= max_attempts -> failed.
requeue_failed(timeout_secs) ==
    [i \in Ids |->
        IF Stuck(jobs[i], timeout_secs) /\ jobs[i].attempts >= jobs[i].max_attempts
        THEN [jobs[i] EXCEPT !.status = "failed", !.last_error = "timeout",
                             !.updated_at = now, !.locked_at = Null,
                             !.locked_by = NoWorker]
        ELSE jobs[i]]

\* Second statement: ... AND attempts < max_attempts -> retry, scheduled_at = NOW().
requeue_retry(timeout_secs) ==
    [i \in Ids |->
        IF Stuck(jobs[i], timeout_secs) /\ jobs[i].attempts < jobs[i].max_attempts
        THEN [jobs[i] EXCEPT !.status = "retry", !.last_error = "timeout",
                             !.scheduled_at = now, !.updated_at = now,
                             !.locked_at = Null, !.locked_by = NoWorker]
        ELSE jobs[i]]

\* (mutant) the DELETE without its status filter.
cleanup_jobs_any_status(retention_hours) ==
    IF retention_hours = 0 THEN jobs
    ELSE LET gone == {i \in Ids : jobs[i].updated_at < now - retention_hours * SecsPerHour}
         IN  [i \in Ids \ gone |-> jobs[i]]

\* DELETE FROM job_queue WHERE status IN ('done', 'failed')
\*   AND updated_at < NOW() - make_interval(hours => $1)
cleanup_jobs(retention_hours) ==
    IF retention_hours = 0 THEN jobs
    ELSE LET gone == {i \in Ids : /\ jobs[i].status \in {"done", "failed"}
                                  /\ jobs[i].updated_at < now - retention_hours * SecsPerHour}
         IN  [i \in Ids \ gone |-> jobs[i]]

Changed(tbl) == {i \in Ids : i \notin DOMAIN tbl \/ tbl[i] # jobs[i]}

\* job_cleanup_loop, each tick: requeue_stuck_jobs (two statements) ...
RequeueFailed ==
    /\ cpc = "requeue_failed"
    /\ jobs' = requeue_failed(JobRunningTimeoutSecs)
    /\ revoked' = revoked \cup Changed(jobs')
    /\ cpc' = "requeue_retry"
    /\ equiet' = Quiet(jobs')
    /\ UNCHANGED <<next_id, now, wpc, wjob, epc, ereq, eret, ecalls, econc, cfgVars, hlsVars, apiVars>>

RequeueRetry ==
    /\ cpc = "requeue_retry"
    /\ jobs' = requeue_retry(JobRunningTimeoutSecs)
    /\ revoked' = revoked \cup Changed(jobs')
    /\ cpc' = "cleanup"
    /\ equiet' = Quiet(jobs')
    /\ UNCHANGED <<next_id, now, wpc, wjob, epc, ereq, eret, ecalls, econc, cfgVars, hlsVars, apiVars>>

\* ... then cleanup_jobs(job_retention_hours), skipped (as cleanup_jobs itself
\* does) when the retention is 0.
Cleanup ==
    /\ cpc = "cleanup"
    /\ jobs' = cleanup_jobs(job_retention_hours)
    /\ cpc' = "requeue_failed"
    /\ equiet' = Quiet(jobs')
    /\ UNCHANGED <<next_id, now, wpc, wjob, epc, ereq, eret, ecalls, econc, cfgVars, hlsVars, apiVars,
                   revoked>>

\* ------------------------------------------- process_job "hls", ensure_hls

HlsInProgress == {w \in Workers : hpc[w] \notin {"idle", "ok", "err"}}

\* Leaving process_job drops _lock (the per-id mutex guard) and _permit.
ReturnFrom(w, outcome) ==
    /\ hpc' = [hpc EXCEPT ![w] = outcome]
    /\ hls_locks' = [hls_locks EXCEPT ![hmedia[w]] = NoWorker]
    /\ hls_permits' = hls_permits + 1

\* job_worker_loop hands an hls job to process_job: payload.media_id is read.
HlsBegin(w, m) ==
    /\ hpc[w] = "idle"
    /\ hcalls[w] < MaxHlsCalls
    /\ hcalls' = [hcalls EXCEPT ![w] = @ + 1]
    /\ hpc' = [hpc EXCEPT ![w] = "permit"]
    /\ hmedia' = [hmedia EXCEPT ![w] = m]
    /\ hspawned' = [hspawned EXCEPT ![w] = FALSE]
    /\ hconc' = [v \in Workers |->
                    IF v = w THEN HlsInProgress
                    ELSE IF v \in HlsInProgress THEN hconc[v] \cup {w}
                    ELSE hconc[v] \ {w}]
    /\ UNCHANGED <<hls_permits, hls_locks, playlist, lockfile, children, spawns,
                   hls_lock_timeout_secs, max_hls_concurrency, queueVars, apiVars>>

\* state.hls_limit.clone().acquire_owned().await
AcquirePermit(w) ==
    /\ hpc[w] = "permit"
    /\ hls_permits > 0
    /\ hls_permits' = hls_permits - 1
    /\ hpc' = [hpc EXCEPT ![w] = "mutex"]
    /\ UNCHANGED <<hmedia, hcalls, hconc, hspawned, hls_locks, playlist, lockfile, children,
                   spawns, hls_lock_timeout_secs, max_hls_concurrency, queueVars, apiVars>>

\* acquire_hls_lock(state, &media_id).await: the per-id mutex.
AcquireMutex(w) ==
    /\ hpc[w] = "mutex"
    /\ hls_locks[hmedia[w]] = NoWorker
    /\ hls_locks' = [hls_locks EXCEPT ![hmedia[w]] = w]
    /\ hpc' = [hpc EXCEPT ![w] = "find"]
    /\ UNCHANGED <<hmedia, hcalls, hconc, hspawned, hls_permits, playlist, lockfile, children,
                   spawns, hls_lock_timeout_secs, max_hls_concurrency, queueVars, apiVars>>

\* find_entry_by_id: the scan of the media directory finds the id or not.
FindEntry(w) ==
    /\ hpc[w] = "find"
    /\ \E found \in BOOLEAN :
          IF found
          THEN /\ hpc' = [hpc EXCEPT ![w] = "exists"]
               /\ UNCHANGED <<hls_locks, hls_permits>>
          ELSE ReturnFrom(w, "err")
    /\ UNCHANGED <<hmedia, hcalls, hconc, hspawned, playlist, lockfile, children, spawns,
                   hls_lock_timeout_secs, max_hls_concurrency, queueVars, apiVars>>

\* ensure_hls: if !playlist_path.exists() { ... } Ok(HlsSession)
PlaylistExists(w) ==
    /\ hpc[w] = "exists"
    /\ IF hmedia[w] \in playlist
       THEN ReturnFrom(w, "ok")
       ELSE /\ hpc' = [hpc EXCEPT ![w] = "lock"]
            /\ UNCHANGED <<hls_locks, hls_permits>>
    /\ UNCHANGED <<hmedia, hcalls, hconc, hspawned, playlist, lockfile, children, spawns,
                   hls_lock_timeout_secs, max_hls_concurrency, queueVars, apiVars>>

\* acquire_hls_lock: OpenOptions::new().write(true).create_new(true).open(..);
\* on AlreadyExists with timeout_secs == 0, Ok(None): ensure_hls returns Ok.
CreateLock(w) ==
    /\ hpc[w] = "lock"
    /\ IF lockfile[hmedia[w]] = NoLock
       THEN /\ lockfile' = [lockfile EXCEPT ![hmedia[w]] = [mtime |-> now, by |-> w]]
            /\ hpc' = [hpc EXCEPT ![w] = "spawn"]
            /\ UNCHANGED <<hls_locks, hls_permits>>
       ELSE /\ IF hls_lock_timeout_secs = 0
               THEN ReturnFrom(w, "ok")
               ELSE /\ hpc' = [hpc EXCEPT ![w] = "stale"]
                    /\ UNCHANGED <<hls_locks, hls_permits>>
            /\ UNCHANGED lockfile
    /\ UNCHANGED <<hmedia, hcalls, hconc, hspawned, playlist, children, spawns,
                   hls_lock_timeout_secs, max_hls_concurrency, queueVars, apiVars>>

\* (mutant) a lock exactly timeout_secs old counts as stale.
StaleInclusive(lock, timeout_secs) == now - lock.mtime >= timeout_secs

\* lock_is_stale: age > timeout_secs
Stale(lock, timeout_secs) == now - lock.mtime > timeout_secs

\* lock_is_stale: fs::metadata fails if the file has gone meanwhile (Err);
\* a stale lock is to be removed, a fresh one makes ensure_hls return Ok.
LockIsStale(w) ==
    /\ hpc[w] = "stale"
    /\ IF lockfile[hmedia[w]] = NoLock
       THEN ReturnFrom(w, "err")
       ELSE IF Stale(lockfile[hmedia[w]], hls_lock_timeout_secs)
       THEN /\ hpc' = [hpc EXCEPT ![w] = "remove"]
            /\ UNCHANGED <<hls_locks, hls_permits>>
       ELSE ReturnFrom(w, "ok")
    /\ UNCHANGED <<hmedia, hcalls, hconc, hspawned, playlist, lockfile, children, spawns,
                   hls_lock_timeout_secs, max_hls_concurrency, queueVars, apiVars>>

\* let _ = fs::remove_file(&lock_path); return acquire_hls_lock(..)
RemoveStaleLock(w) ==
    /\ hpc[w] = "remove"
    /\ lockfile' = [lockfile EXCEPT ![hmedia[w]] = NoLock]
    /\ hpc' = [hpc EXCEPT ![w] = "lock"]
    /\ UNCHANGED <<hmedia, hcalls, hconc, hspawned, hls_permits, hls_locks, playlist,
                   children, spawns, hls_lock_timeout_secs, max_hls_concurrency, queueVars, apiVars>>

\* spawn_ffmpeg_hls returns Ok(child): a detached thread waits for the child
\* and ensure_hls returns Ok at once.
SpawnFfmpeg(w) ==
    /\ hpc[w] = "spawn"
    /\ spawns' = [spawns EXCEPT ![hmedia[w]] = @ + 1]
    /\ children' = children \cup
          {[media |-> hmedia[w], n |-> spawns[hmedia[w]] + 1, by |-> w, st |-> "running"]}
    /\ hspawned' = [hspawned EXCEPT ![w] = TRUE]
    /\ ReturnFrom(w, "ok")
    /\ UNCHANGED <<hmedia, hcalls, hconc, playlist, lockfile, hls_lock_timeout_secs,
                   max_hls_concurrency, queueVars, apiVars>>

\* spawn_ffmpeg_hls returns Err: the lock is removed and the error returned.
SpawnFails(w) ==
    /\ hpc[w] = "spawn"
    /\ lockfile' = [lockfile EXCEPT ![hmedia[w]] = NoLock]
    /\ ReturnFrom(w, "err")
    /\ UNCHANGED <<hmedia, hcalls, hconc, hspawned, playlist, children, spawns,
                   hls_lock_timeout_secs, max_hls_concurrency, queueVars, apiVars>>

\* job_worker_loop: complete_job / fail_job, then the next poll.
ReportJob(w) ==
    /\ hpc[w] \in {"ok", "err"}
    /\ hpc' = [hpc EXCEPT ![w] = "idle"]
    /\ UNCHANGED <<hmedia, hcalls, hconc, hspawned, hls_permits, hls_locks, playlist,
                   lockfile, children, spawns, hls_lock_timeout_secs, max_hls_concurrency,
                   queueVars, apiVars>>

\* The transcoder (-hls_playlist_type vod ... -f hls <out>/index.m3u8) writes
\* the playlist.
FfmpegWritesPlaylist(c) ==
    /\ c \in children /\ c.st = "running"
    /\ c.media \notin playlist
    /\ playlist' = playlist \cup {c.media}
    /\ UNCHANGED <<hpc, hmedia, hcalls, hconc, hspawned, hls_permits, hls_locks, lockfile,
                   children, spawns, hls_lock_timeout_secs, max_hls_concurrency, queueVars, apiVars>>

\* The child exits, with or without having written the playlist:
\* child.wait() returns in the waiter thread, whatever the exit status.
FfmpegExits(c) ==
    /\ c \in children /\ c.st = "running"
    /\ children' = (children \ {c}) \cup {[c EXCEPT !.st = "exited"]}
    /\ UNCHANGED <<hpc, hmedia, hcalls, hconc, hspawned, hls_permits, hls_locks, playlist,
                   lockfile, spawns, hls_lock_timeout_secs, max_hls_concurrency, queueVars, apiVars>>

\* The waiter thread: let _ = fs::remove_file(lock_path), by path.
WaiterRemovesLock(c) ==
    /\ c \in children /\ c.st = "exited"
    /\ children' = children \ {c}
    /\ lockfile' = [lockfile EXCEPT ![c.media] = NoLock]
    /\ UNCHANGED <<hpc, hmedia, hcalls, hconc, hspawned, hls_permits, hls_locks, playlist,
                   spawns, hls_lock_timeout_secs, max_hls_concurrency, queueVars, apiVars>>

\* AppState::new and an empty HLS root.
HlsIdle ==
    /\ hpc = [w \in Workers |-> "idle"]
    /\ hmedia = [w \in Workers |-> CHOOSE m \in MediaIds : TRUE]
    /\ hcalls = [w \in Workers |-> 0]
    /\ hconc = [w \in Workers |-> {}]
    /\ hspawned = [w \in Workers |-> FALSE]
    /\ hls_permits = max_hls_concurrency
    /\ hls_locks = [m \in MediaIds |-> NoWorker]
    /\ playlist = {}
    /\ lockfile = [m \in MediaIds |-> NoLock]
    /\ children = {}
    /\ spawns = [m \in MediaIds |-> 0]

\* ------------------------------------- auto_match_all, set_manual_match

\* AutoMatchOptions::default(): min_candidate_score 0.5 and min_confidence
\* 0.9, on the score levels of the model.
DefaultOptions == [min_candidate_score |-> 1, min_confidence |-> 2]

\* The run goes on to the next row, or returns with an error.
RunTo(r, pc) == apc' = [apc EXCEPT ![r] = pc]

\* auto_match_all(db, client, options): SELECT ... FROM media_parses.
AutoMatchStart(r, c, m) ==
    /\ apc[r] = "idle"
    /\ aruns[r] < MaxRuns
    /\ aruns' = [aruns EXCEPT ![r] = @ + 1]
    /\ aopts' = [aopts EXCEPT ![r] = [min_candidate_score |-> c, min_confidence |-> m]]
    /\ arows' = [arows EXCEPT ![r] = {id \in MediaIds : media_parses[id] # NoKey}]
    /\ RunTo(r, "row")
    /\ UNCHANGED <<media_parses, media_matches, match_candidates, bangumi_subjects, acur,
                   aresults, asearch, abest, mops, rateVars, queueVars, hlsVars, scanVars,
                   servVars, admVars, flightVars, moreVars>>

\* for row in rows { if !row.parse_ok { continue; } ... }; Ok(summary) at the end.
NextRow(r) ==
    /\ apc[r] = "row"
    /\ IF arows[r] = {}
       THEN /\ RunTo(r, "idle")
            /\ UNCHANGED <<arows, acur>>
       ELSE \E id \in arows[r] :
               /\ arows' = [arows EXCEPT ![r] = @ \ {id}]
               /\ acur' = [acur EXCEPT ![r] = id]
               /\ RunTo(r, IF media_parses[id] = "failed" THEN "row" ELSE "manual_check")
    /\ UNCHANGED <<media_parses, media_matches, match_candidates, bangumi_subjects,
                   aresults, asearch, abest, aopts, aruns, mops, rateVars, queueVars,
                   hlsVars, scanVars, servVars, admVars, flightVars, moreVars>>

\* if has_manual_match(db, &row.media_id) { continue; }; a row without a
\* title is skipped too.
HasManualMatch(r) ==
    /\ apc[r] = "manual_check"
    /\ RunTo(r, IF \/ media_matches[acur[r]].method = "manual"
                   \/ media_parses[acur[r]] = "untitled"
                THEN "row" ELSE "search")
    /\ UNCHANGED <<media_parses, media_matches, match_candidates, bangumi_subjects, arows,
                   acur, aresults, asearch, abest, aopts, aruns, mops, rateVars, queueVars,
                   hlsVars, scanVars, servVars, admVars, flightVars, moreVars>>

\* client.search_anime(&title, options.limit).await?: some results, or an
\* error that ends the run.
SearchAnime(r) ==
    /\ apc[r] = "search"
    /\ \/ \E found \in SearchResults :
             /\ aresults' = [aresults EXCEPT ![r] = found]
             /\ asearch' = [asearch EXCEPT ![r] = found]
             /\ abest' = [abest EXCEPT ![r] = NoBest]
             /\ RunTo(r, "clear_candidates")
       \/ /\ RunTo(r, "idle")
          /\ UNCHANGED <<aresults, asearch, abest>>
    /\ UNCHANGED <<media_parses, media_matches, match_candidates, bangumi_subjects, arows,
                   acur, aopts, aruns, mops, rateVars, queueVars, hlsVars, scanVars,
                   servVars, admVars, flightVars, moreVars>>

\* clear_candidates: DELETE FROM match_candidates WHERE media_id = $1
ClearCandidates(r) ==
    /\ apc[r] = "clear_candidates"
    /\ match_candidates' = {row \in match_candidates : row.media_id # acur[r]}
    /\ RunTo(r, "clear_auto")
    /\ UNCHANGED <<media_parses, media_matches, bangumi_subjects, arows, acur, aresults,
                   asearch, abest, aopts, aruns, mops, rateVars, queueVars, hlsVars,
                   scanVars, servVars, admVars, flightVars, moreVars>>

\* clear_auto_match: DELETE FROM media_matches WHERE media_id = $1 AND
\* method = 'auto'; then if search.data.is_empty() { continue; }
ClearAutoMatch(r) ==
    /\ apc[r] = "clear_auto"
    /\ media_matches' = [media_matches EXCEPT
                            ![acur[r]] = IF @.method = "auto" THEN NoMatch ELSE @]
    /\ RunTo(r, IF DOMAIN aresults[r] = {} THEN "row" ELSE "score")
    /\ UNCHANGED <<media_parses, match_candidates, bangumi_subjects, arows, acur, aresults,
                   asearch, abest, aopts, aruns, mops, rateVars, queueVars, hlsVars,
                   scanVars, servVars, admVars, flightVars, moreVars>>

\* (mutant) the candidate threshold is not applied.
KeepCandidateAlways(score, opts) == TRUE

\* if score < options.min_candidate_score { continue; }
KeepCandidate(score, opts) == ~(score < opts.min_candidate_score)

\* upsert_candidate: ON CONFLICT (media_id, subject_id) DO UPDATE.
UpsertCandidate(media_id, subject_id, score) ==
    {row \in match_candidates : ~(row.media_id = media_id /\ row.subject_id = subject_id)}
        \cup {[media_id |-> media_id, subject_id |-> subject_id, confidence |-> score]}

\* if best.as_ref().map(|(_, s, _)| score > *s).unwrap_or(true) { best = ... }
BetterThan(score, best) == best = NoBest \/ score > best.score

\* One subject of search.data: upsert_subject_cached, score_subject, and for
\* a score that reaches min_candidate_score upsert_candidate and best.
ScoreSubject(r) ==
    /\ apc[r] = "score"
    /\ \E sid \in DOMAIN aresults[r] :
          LET score == aresults[r][sid]
              rest == [x \in DOMAIN aresults[r] \ {sid} |-> aresults[r][x]]
          IN  /\ bangumi_subjects' = bangumi_subjects \cup {sid}
              /\ aresults' = [aresults EXCEPT ![r] = rest]
              /\ IF KeepCandidate(score, aopts[r])
                 THEN /\ match_candidates' = UpsertCandidate(acur[r], sid, score)
                      /\ abest' = [abest EXCEPT ![r] =
                                      IF BetterThan(score, @)
                                      THEN [subject_id |-> sid, score |-> score] ELSE @]
                 ELSE UNCHANGED <<match_candidates, abest>>
              /\ RunTo(r, IF DOMAIN rest = {} THEN "best" ELSE "score")
    /\ UNCHANGED <<media_parses, media_matches, arows, acur, asearch, aopts, aruns, mops,
                   rateVars, queueVars, hlsVars, scanVars, servVars, admVars, flightVars,
                   moreVars>>

\* if score < options.min_confidence { continue; }
Confident(best, opts) == ~(best.score < opts.min_confidence)

\* let Some(..) = best else { continue; }; the confidence threshold.
PickBest(r) ==
    /\ apc[r] = "best"
    /\ RunTo(r, IF abest[r] # NoBest /\ Confident(abest[r], aopts[r])
                THEN "episode" ELSE "row")
    /\ UNCHANGED <<media_parses, media_matches, match_candidates, bangumi_subjects, arows,
                   acur, aresults, asearch, abest, aopts, aruns, mops, rateVars, queueVars,
                   hlsVars, scanVars, servVars, admVars, flightVars, moreVars>>

\* row.episode: ensure_episode_cache / load_cached_episodes succeed (or there
\* is no episode), or ensure_episode_cache's error ends the run.
EpisodeId(r) ==
    /\ apc[r] = "episode"
    /\ \E ok \in BOOLEAN : RunTo(r, IF ok THEN "upsert" ELSE "idle")
    /\ UNCHANGED <<media_parses, media_matches, match_candidates, bangumi_subjects, arows,
                   acur, aresults, asearch, abest, aopts, aruns, mops, rateVars, queueVars,
                   hlsVars, scanVars, servVars, admVars, flightVars, moreVars>>

\* upsert_media_match: INSERT ... ON CONFLICT (media_id) DO UPDATE SET ... .
upsert_media_match(media_id, subject_id, method, confidence) ==
    [media_matches EXCEPT ![media_id] =
        [method |-> method, subject_id |-> subject_id, confidence |-> confidence]]

\* upsert_media_match(db, &row.media_id, subject.id, episode_id, "auto", Some(score), ..)
UpsertAutoMatch(r) ==
    /\ apc[r] = "upsert"
    /\ media_matches' =
          upsert_media_match(acur[r], abest[r].subject_id, "auto", abest[r].score)
    /\ RunTo(r, "row")
    /\ UNCHANGED <<media_parses, match_candidates, bangumi_subjects, arows, acur, aresults,
                   asearch, abest, aopts, aruns, mops, rateVars, queueVars, hlsVars,
                   scanVars, servVars, admVars, flightVars, moreVars>>

\* set_manual_match: ensure_subject_exists (an error for a subject that is
\* not cached), then upsert_media_match(.., "manual", None, ..).
set_manual_match(media_id, subject_id) ==
    IF subject_id \in bangumi_subjects
    THEN upsert_media_match(media_id, subject_id, "manual", Null)
    ELSE media_matches

\* clear_match: DELETE FROM media_matches WHERE media_id = $1
clear_match(media_id) == [media_matches EXCEPT ![media_id] = NoMatch]

\* An administrator sets a manual match.
SetManualMatch(media_id, subject_id) ==
    /\ mops < MaxManualOps
    /\ mops' = mops + 1
    /\ media_matches' = set_manual_match(media_id, subject_id)
    /\ UNCHANGED <<media_parses, match_candidates, bangumi_subjects, runVars, rateVars,
                   queueVars, hlsVars, scanVars, servVars, admVars, flightVars, moreVars>>

\* An administrator clears a match.
ClearMatch(media_id) ==
    /\ mops < MaxManualOps
    /\ mops' = mops + 1
    /\ media_matches' = clear_match(media_id)
    /\ UNCHANGED <<media_parses, match_candidates, bangumi_subjects, runVars, rateVars,
                   queueVars, hlsVars, scanVars, servVars, admVars, flightVars, moreVars>>

\* No auto-match run has begun.
RunIdle ==
    /\ apc = [r \in Matchers |-> "idle"]
    /\ arows = [r \in Matchers |-> {}]
    /\ acur = [r \in Matchers |-> CHOOSE m \in MediaIds : TRUE]
    /\ aresults = [r \in Matchers |-> <<>>]
    /\ asearch = [r \in Matchers |-> <<>>]
    /\ abest = [r \in Matchers |-> NoBest]
    /\ aopts = [r \in Matchers |-> [min_candidate_score |-> 0, min_confidence |-> 0]]
    /\ aruns = [r \in Matchers |-> 0]

\* No match, no candidate, one subject cached, no run.
MatchIdle ==
    /\ media_parses = [m \in MediaIds |-> "titled"]
    /\ media_matches = [m \in MediaIds |-> NoMatch]
    /\ match_candidates = {}
    /\ bangumi_subjects = {1}
    /\ RunIdle
    /\ mops = 0

\* ------------------------------------------------------ scan_and_index

\* media_id_from_path: the 64-bit hash of the path, in hex; distinct on the
\* paths of the model.
media_id_from_path(path) == IF path = "f1" THEN "m1" ELSE "m2"

\* The row of a media id as a statement of transaction s sees it: its own
\* uncommitted write, else the committed row.
Visible(s, id) == IF swrites[s][id] # Untouched THEN swrites[s][id] ELSE media_files[id]

\* SELECT size, modified_at FROM media_files WHERE id = $1, in transaction s.
fetch_media_meta(s, id) ==
    IF swrites[s][id] # Untouched THEN smeta[s][id] ELSE media_meta[id]

\* (mutant) only the size is compared.
needs_parse_size_only(found, meta, size, modified_at) == ~found \/ meta.size # size

\* Some(meta) => meta.size != entry.size as i64 || meta.modified_at != modified_at,
\* None => true
needs_parse(found, meta, size, modified_at) ==
    ~found \/ meta.size # size \/ meta.modified_at # modified_at

\* The row is written by another transaction that has not ended: a write to
\* it waits for that transaction.
LockedByOther(s, id) == \E o \in Scanners \ {s} : swrites[o][id] # Untouched

\* The first of the entries still to visit (entries are sorted by filename).
FirstEntry(entries) == CHOOSE p \in entries : \A q \in entries : p = "f1" \/ q # "f1"

\* scan_media(config), scan_token from SystemTime::now(), db.begin().
ScanMedia(s) ==
    /\ spc[s] = "idle"
    /\ sruns < MaxScans
    /\ sruns' = sruns + 1
    /\ scan_clock' = scan_clock + 1
    /\ stoken' = [stoken EXCEPT ![s] = scan_clock']
    /\ sall' = [sall EXCEPT ![s] = media_dir]
    /\ sentries' = [sentries EXCEPT ![s] = media_dir]
    /\ swrites' = [swrites EXCEPT ![s] = [id \in MediaIds |-> Untouched]]
    /\ sparsed' = [sparsed EXCEPT ![s] = {}]
    /\ smeta' = [smeta EXCEPT ![s] = [id \in MediaIds |-> NoMeta]]
    /\ ssize' = [ssize EXCEPT ![s] = [p \in Paths |-> file_meta[p].size]]
    /\ spc' = [spc EXCEPT ![s] = IF media_dir = {} THEN "delete" ELSE "meta"]
    /\ UNCHANGED <<media_dir, media_files, sneeds, sdel, dir_changes, file_meta, media_meta,
                   smodified, rateVars, matchVars,
                   queueVars, hlsVars, servVars, admVars, flightVars, moreVars>>

\* (mutant) the dropped transaction's writes stay pending.
RollbackKeepsWrites(s) ==
    /\ spc' = [spc EXCEPT ![s] = "idle"]
    /\ UNCHANGED <<swrites, smeta, sparsed>>

\* The transaction is dropped without commit: rollback.
Rollback(s) ==
    /\ swrites' = [swrites EXCEPT ![s] = [id \in MediaIds |-> Untouched]]
    /\ smeta' = [smeta EXCEPT ![s] = [id \in MediaIds |-> NoMeta]]
    /\ sparsed' = [sparsed EXCEPT ![s] = {}]
    /\ spc' = [spc EXCEPT ![s] = "idle"]

\* modified_epoch(&entry.path)? and fetch_media_meta: needs_parse is true for
\* a missing row, and for a present row whenever size or mtime differ.
FetchMediaMeta(s) ==
    /\ spc[s] = "meta"
    /\ LET p == FirstEntry(sentries[s])
       IN  IF p \notin media_dir
           THEN /\ Rollback(s)
                /\ UNCHANGED <<sneeds, smodified>>
           ELSE /\ smodified' = [smodified EXCEPT ![s] = file_meta[p].modified_at]
                /\ sneeds' = [sneeds EXCEPT ![s] =
                      needs_parse(Visible(s, media_id_from_path(p)) # NoToken,
                                  fetch_media_meta(s, media_id_from_path(p)),
                                  ssize[s][p], file_meta[p].modified_at)]
                /\ spc' = [spc EXCEPT ![s] = "upsert"]
                /\ UNCHANGED <<swrites, sparsed, smeta>>
    /\ UNCHANGED <<media_dir, media_files, scan_clock, sall, sentries, stoken, sdel, sruns,
                   dir_changes, file_meta, media_meta, ssize, rateVars, matchVars, queueVars, hlsVars, servVars, admVars, flightVars, moreVars>>

\* upsert_media_file (ON CONFLICT (id) DO UPDATE) and, if needs_parse,
\* upsert_parse; the statement waits while another transaction holds the row.
UpsertMediaFile(s) ==
    /\ spc[s] = "upsert"
    /\ LET p == FirstEntry(sentries[s])
           id == media_id_from_path(p)
           rest == sentries[s] \ {p}
       IN  /\ ~LockedByOther(s, id)
           /\ swrites' = [swrites EXCEPT ![s][id] = stoken[s]]
           /\ smeta' = [smeta EXCEPT ![s][id] =
                           [size |-> ssize[s][p], modified_at |-> smodified[s]]]
           /\ sparsed' = [sparsed EXCEPT ![s] = IF sneeds[s] THEN @ \cup {id} ELSE @]
           /\ sentries' = [sentries EXCEPT ![s] = rest]
           /\ spc' = [spc EXCEPT ![s] = IF rest = {} THEN "delete" ELSE "meta"]
    /\ UNCHANGED <<media_dir, media_files, scan_clock, sall, stoken, sneeds, sdel, sruns,
                   dir_changes, file_meta, media_meta, ssize, smodified, rateVars, matchVars, queueVars, hlsVars, servVars, admVars, flightVars, moreVars>>

\* delete_stale_media: DELETE FROM media_files WHERE last_seen_token IS
\* DISTINCT FROM $1, the rows its snapshot selects.
StaleRows(s) == {id \in MediaIds : Visible(s, id) # NoToken /\ Visible(s, id) # stoken[s]}

DeleteStaleBegin(s) ==
    /\ spc[s] = "delete"
    /\ sdel' = [sdel EXCEPT ![s] = StaleRows(s)]
    /\ spc' = [spc EXCEPT ![s] = "deleting"]
    /\ UNCHANGED <<media_dir, media_files, scan_clock, sall, sentries, stoken, sneeds,
                   swrites, sparsed, sruns, dir_changes, metaVars, rateVars, matchVars, queueVars,
                   hlsVars, servVars, admVars, flightVars, moreVars>>

\* The DELETE waits for the transactions that hold selected rows, looks at
\* each selected row's latest version again and deletes those that still
\* carry another token.
DeleteStaleEnd(s) ==
    /\ spc[s] = "deleting"
    /\ \A id \in sdel[s] : ~LockedByOther(s, id)
    /\ swrites' = [swrites EXCEPT ![s] =
                      [id \in MediaIds |-> IF id \in sdel[s] /\ id \in StaleRows(s)
                                           THEN Deleted ELSE @[id]]]
    /\ sparsed' = [sparsed EXCEPT ![s] = @ \ (sdel[s] \cap StaleRows(s))]
    /\ spc' = [spc EXCEPT ![s] = "commit"]
    /\ UNCHANGED <<media_dir, media_files, scan_clock, sall, sentries, stoken, sneeds, sdel,
                   sruns, dir_changes, metaVars, rateVars, matchVars, queueVars, hlsVars, servVars, admVars, flightVars, moreVars>>

\* tx.commit(): the written rows become the committed rows; deleting a
\* media_files row deletes its parse, match and candidates (ON DELETE CASCADE).
ScanCommit(s) ==
    /\ spc[s] = "commit"
    /\ LET gone == {id \in MediaIds : swrites[s][id] = Deleted}
       IN  /\ media_files' = [id \in MediaIds |->
                                 IF swrites[s][id] # Untouched THEN swrites[s][id]
                                 ELSE media_files[id]]
           /\ media_meta' = [id \in MediaIds |->
                                IF id \in gone THEN NoMeta
                                ELSE IF swrites[s][id] # Untouched THEN smeta[s][id]
                                ELSE media_meta[id]]
           /\ \E kind \in ParseKinds :
                 media_parses' = [id \in MediaIds |->
                                     IF id \in gone THEN NoKey
                                     ELSE IF id \in sparsed[s] THEN kind
                                     ELSE media_parses[id]]
           /\ media_matches' = [id \in MediaIds |->
                                   IF id \in gone THEN NoMatch ELSE media_matches[id]]
           /\ match_candidates' = {row \in match_candidates : row.media_id \notin gone}
    /\ Rollback(s)
    /\ UNCHANGED <<bangumi_subjects, runVars, mops,
                   media_dir, scan_clock, sall, sentries, stoken, sneeds, sdel, sruns,
                   dir_changes, file_meta, ssize, smodified, rateVars, queueVars, hlsVars, servVars, admVars, flightVars, moreVars>>

\* A file is copied into media_dir, or removed from it.
DirChange(p) ==
    /\ dir_changes < MaxDirChanges
    /\ dir_changes' = dir_changes + 1
    /\ media_dir' = IF p \in media_dir THEN media_dir \ {p} ELSE media_dir \cup {p}
    /\ UNCHANGED <<media_files, scan_clock, spc, sall, sentries, stoken, sneeds, swrites,
                   sparsed, sdel, sruns, metaVars, rateVars, matchVars, queueVars, hlsVars,
                   servVars, admVars, flightVars, moreVars>>

\* A file of media_dir is changed: its size changes (mtime kept, as a copy that
\* preserves times does) or its mtime changes (size kept).
FileChange(p) ==
    /\ dir_changes < MaxDirChanges
    /\ dir_changes' = dir_changes + 1
    /\ p \in media_dir
    /\ \E meta \in Metas :
          /\ (meta.size = file_meta[p].size) # (meta.modified_at = file_meta[p].modified_at)
          /\ file_meta' = [file_meta EXCEPT ![p] = meta]
    /\ UNCHANGED <<media_dir, media_files, scan_clock, spc, sall, sentries, stoken, sneeds,
                   swrites, sparsed, sdel, sruns, media_meta, smeta, ssize, smodified,
                   rateVars, matchVars, queueVars, hlsVars, servVars, admVars, flightVars,
                   moreVars>>

\* A statement of the transaction, or its commit, returns a database error:
\* `?` leaves scan_and_index and the dropped transaction is rolled back.
ScanFails(s) ==
    /\ spc[s] \in {"meta", "upsert", "delete", "deleting", "commit"}
    /\ Rollback(s)
    /\ UNCHANGED <<media_dir, media_files, scan_clock, sall, sentries, stoken, sneeds, sdel,
                   sruns, dir_changes, file_meta, media_meta, ssize, smodified, rateVars,
                   matchVars, queueVars, hlsVars, servVars, admVars, flightVars, moreVars>>

\* An empty library over an empty media_dir, no scan running.
ScanIdle ==
    /\ media_dir = {}
    /\ media_files = [id \in MediaIds |-> NoToken]
    /\ scan_clock = 0
    /\ spc = [s \in Scanners |-> "idle"]
    /\ sall = [s \in Scanners |-> {}]
    /\ sentries = [s \in Scanners |-> {}]
    /\ stoken = [s \in Scanners |-> 0]
    /\ sneeds = [s \in Scanners |-> FALSE]
    /\ swrites = [s \in Scanners |-> [id \in MediaIds |-> Untouched]]
    /\ sparsed = [s \in Scanners |-> {}]
    /\ sdel = [s \in Scanners |-> {}]
    /\ sruns = 0
    /\ dir_changes = 0
    /\ file_meta = [p \in Paths |-> [size |-> 1, modified_at |-> 1]]
    /\ media_meta = [id \in MediaIds |-> NoMeta]
    /\ smeta = [s \in Scanners |-> [id \in MediaIds |-> NoMeta]]
    /\ ssize = [s \in Scanners |-> [p \in Paths |-> 0]]
    /\ smodified = [s \in Scanners |-> 0]

\* -------------------------------------------- require_auth, serve_hls_file

\* normalize_role_level: level.clamp(ROLE_LEVEL_MIN, ROLE_LEVEL_MAX)
normalize_role_level(level) ==
    IF level < RoleLevelMin THEN RoleLevelMin
    ELSE IF level > RoleLevelMax THEN RoleLevelMax ELSE level

\* require_auth: 401 for a missing token (extract_token gives None) or one
\* decode_token rejects, else the AuthContext with its role level.
require_auth(token) ==
    IF token.kind # "valid" THEN [status |-> "401", role_level |-> 0]
    ELSE [status |-> "ok", role_level |-> normalize_role_level(token.role_level)]

\* The directories, files and symbolic links of the file system.
IsDir(path) ==
    \/ path \in {<<>>, <<"cache">>, <<"etc">>}
    \/ fs_root /\ path \in {HlsRoot, HlsRoot \o <<"m1">>}

IsFile(path) ==
    \/ fs_root /\ path = HlsRoot \o <<"m1", "index.m3u8">>
    \/ fs_secret /\ path = <<"etc", "passwd">>

IsLink(path) == fs_root /\ fs_link /\ path = HlsRoot \o <<"m1", "link">>

LinkTarget(path) == <<"etc", "passwd">>

\* The parent of a directory; the parent of "/" is "/".
Parent(dir) == IF dir = <<>> THEN <<>> ELSE SubSeq(dir, 1, Len(dir) - 1)

\* Path::join: an absolute argument replaces the path.
Join(base, id, file) == IF file.abs THEN file.parts ELSE base \o <<id>> \o file.parts

\* Path::starts_with: component-wise prefix.
StartsWith(path, base) ==
    Len(path) >= Len(base) /\ SubSeq(path, 1, Len(base)) = base

RECURSIVE Canon(_, _)
\* fs::canonicalize from a resolved directory over the remaining components:
\* every component must exist, ".." goes to the parent, a link is followed;
\* NoPath for an error.
Canon(done, rest) ==
    IF rest = <<>> THEN done
    ELSE IF ~IsDir(done) THEN NoPath
    ELSE IF Head(rest) = ".." THEN Canon(Parent(done), Tail(rest))
    ELSE LET next == done \o <<Head(rest)>>
         IN  IF IsLink(next) THEN Canon(<<>>, LinkTarget(next) \o Tail(rest))
             ELSE IF IsDir(next) \/ IsFile(next) THEN Canon(next, Tail(rest))
             ELSE NoPath

canonicalize(path) == Canon(<<>>, path)

\* candidate.starts_with(&root)
WithinRoot(candidate, root) == StartsWith(candidate, root)

\* ensure_within_root: 500 when the root does not canonicalize, 404 when the
\* path does not, 403 when the path is not under the root, else the canonical
\* path.
ensure_within_root(root, path) ==
    IF canonicalize(root) = NoPath THEN [status |-> "500", path |-> NoPath]
    ELSE IF canonicalize(path) = NoPath THEN [status |-> "404", path |-> NoPath]
    ELSE IF WithinRoot(canonicalize(path), canonicalize(root))
    THEN [status |-> "ok", path |-> canonicalize(path)]
    ELSE [status |-> "403", path |-> NoPath]

\* hls_file_handler: require_auth, then serve_hls_file: the file under
\* <root>/<id>/<file> is opened if ensure_within_root lets it through.
HlsFileRequest(token, id, file) ==
    /\ serves < MaxServes
    /\ serves' = serves + 1
    /\ hls_req' = [token |-> token, id |-> id, file |-> file]
    /\ LET safe_path == ensure_within_root(HlsRoot, Join(HlsRoot, id, file))
       IN  IF require_auth(token).status # "ok"
           THEN hls_status' = require_auth(token).status /\ hls_opened' = NoPath
           ELSE IF safe_path.status # "ok"
           THEN hls_status' = safe_path.status /\ hls_opened' = NoPath
           ELSE /\ hls_opened' = safe_path.path
                /\ hls_status' = "200"
    /\ UNCHANGED <<fs_root, fs_link, fs_secret, rateVars, matchVars, scanVars, queueVars,
                   hlsVars, admVars, flightVars, moreVars>>

\* Nothing served yet; the HLS root with one playlist and no link.
ServeIdle ==
    /\ fs_root = TRUE
    /\ fs_link = FALSE
    /\ fs_secret = TRUE
    /\ hls_req = NoHlsRequest
    /\ hls_status = "null"
    /\ hls_opened = NoPath
    /\ serves = 0

\* ------------------------------------------------ the admin-only handlers

\* if auth.role_level < ROLE_LEVEL_ADMIN { return Err(not_found_error()); }
IsAdmin(role_level) == ~(role_level < RoleLevelAdmin)

\* What precedes the action in each of the handlers: the extractors of the
\* handler's arguments (Query, Json) reject the request with a 4xx before
\* the handler's body runs; then require_auth; then the role check.
AdminGate(req) ==
    IF ~req.parses THEN "400"
    ELSE IF require_auth(req.token).status # "ok" THEN "401"
    ELSE IF ~IsAdmin(require_auth(req.token).role_level) THEN "404"
    ELSE "ok"

\* enqueue_job's (job_type, dedup_key) in the handlers that enqueue.
AdminJob(action) ==
    IF action = "auto-match" THEN [job_type |-> "auto-match", dedup_key |-> "auto-match"]
    ELSE [job_type |-> "index", dedup_key |-> "index"]

\* enqueue_index_job_handler, enqueue_auto_match_job_handler,
\* manual_match_handler, clear_match_handler, library_handler with
\* refresh=true: up to the response, or up to the call of enqueue_job.
AdminRequest(e, req) ==
    /\ adm_status[e] # "pending"
    /\ adm_calls[e] < MaxAdminCalls
    /\ adm_calls' = [adm_calls EXCEPT ![e] = @ + 1]
    /\ adm_req' = [adm_req EXCEPT ![e] = req]
    /\ IF AdminGate(req) # "ok"
       THEN /\ adm_status' = [adm_status EXCEPT ![e] = AdminGate(req)]
            /\ UNCHANGED <<queueVars, media_matches>>
       ELSE IF req.action = "set-match"
       THEN /\ media_matches' = set_manual_match(req.media_id, req.subject_id)
            /\ adm_status' = [adm_status EXCEPT ![e] =
                                 IF req.subject_id \in bangumi_subjects THEN "204" ELSE "400"]
            /\ UNCHANGED queueVars
       ELSE IF req.action = "clear-match"
       THEN /\ media_matches' = clear_match(req.media_id)
            /\ adm_status' = [adm_status EXCEPT ![e] = "204"]
            /\ UNCHANGED queueVars
       ELSE /\ EnqueueCall(e, AdminJob(req.action))
            /\ adm_status' = [adm_status EXCEPT ![e] = "pending"]
            /\ UNCHANGED <<cfgVars, media_matches>>
    /\ UNCHANGED <<media_parses, match_candidates, bangumi_subjects, runVars, mops, rateVars, scanVars, servVars,
                   hlsVars, flightVars, moreVars>>

\* enqueue_job has returned: 202 with the job id, or library_handler's list.
AdminRespond(e) ==
    /\ adm_status[e] = "pending"
    /\ epc[e] = "idle"
    /\ adm_status' = [adm_status EXCEPT ![e] =
                         IF adm_req[e].action = "library-refresh" THEN "200" ELSE "202"]
    /\ UNCHANGED <<adm_req, adm_calls, rateVars, matchVars, scanVars, servVars, queueVars,
                   hlsVars, flightVars, moreVars>>

\* No request made to an admin-only route.
AdminIdle ==
    /\ adm_req = [e \in Callers |-> NoAdminRequest]
    /\ adm_status = [e \in Callers |-> "null"]
    /\ adm_calls = [e \in Callers |-> 0]

\* ------------------------------------------------- in_flight_middleware

\* InFlightGuard::new: counter.fetch_add(1, Ordering::Relaxed)
GuardNew(counter) == (counter + 1) % UsizeRange

\* (mutant) a guard whose drop leaves the counter alone.
GuardDropForgets(counter) == counter

\* Drop for InFlightGuard: self.counter.fetch_sub(1, Ordering::Relaxed)
GuardDrop(counter) == (counter - 1) % UsizeRange

\* in_flight_middleware: let _guard = InFlightGuard::new(..), then next.run.
InFlightEnter(c) ==
    /\ fpc[c] = "out"
    /\ fentries < MaxEntries
    /\ fentries' = fentries + 1
    /\ in_flight' = GuardNew(in_flight)
    /\ fpc' = [fpc EXCEPT ![c] = "in"]
    /\ UNCHANGED <<fdone, rateVars, matchVars, scanVars, servVars, admVars, queueVars,
                   hlsVars, moreVars>>

\* The middleware's future ends, by returning next.run's response, by
\* unwinding, or by being dropped: _guard goes out of scope.
InFlightExit(c, path) ==
    /\ fpc[c] = "in"
    /\ in_flight' = GuardDrop(in_flight)
    /\ fpc' = [fpc EXCEPT ![c] = "out"]
    /\ fdone' = fdone \cup {path}
    /\ UNCHANGED <<fentries, rateVars, matchVars, scanVars, servVars, admVars, queueVars,
                   hlsVars, moreVars>>

\* AppState::new: in_flight is AtomicUsize::new(0); no request yet.
FlightIdle ==
    /\ in_flight = 0
    /\ fpc = [c \in Conns |-> "out"]
    /\ fdone = {}
    /\ fentries = 0

\* ------------------------------------------------ rate_limit_middleware

\* The bucket key: format!("user:{}", user_id) or format!("ip:{}", addr.ip()).
BucketKey(req) ==
    IF req.user # NoUser THEN <<"user", req.user>> ELSE <<"ip", req.ip>>

BucketKeys == {BucketKey(req) : req \in HttpRequests}

\* The limit that goes with the key.
BucketLimit(req) ==
    IF req.user # NoUser THEN rate_limit_user_per_minute ELSE rate_limit_ip_per_minute

\* (mutant) the IP sets are consulted before the user allow set.
PreBucketIpFirst(req) ==
    IF req.user # NoUser /\ req.user \in rate_limit_block_users THEN "403"
    ELSE IF req.ip \in rate_limit_block_ips THEN "403"
    ELSE IF req.ip \in rate_limit_allow_ips THEN "pass"
    ELSE IF req.user # NoUser /\ req.user \in rate_limit_allow_users THEN "pass"
    ELSE IF BucketLimit(req) = 0 THEN "pass"
    ELSE "bucket"

\* The checks before the bucket: block users, allow users, block IPs, allow
\* IPs, then limit == 0.
PreBucket(req) ==
    IF req.user # NoUser /\ req.user \in rate_limit_block_users THEN "403"
    ELSE IF req.user # NoUser /\ req.user \in rate_limit_allow_users THEN "pass"
    ELSE IF req.ip \in rate_limit_block_ips THEN "403"
    ELSE IF req.ip \in rate_limit_allow_ips THEN "pass"
    ELSE IF BucketLimit(req) = 0 THEN "pass"
    ELSE "bucket"

\* guard.retain(|_, value| value.last_seen >= cutoff), cutoff = now - 600 s.
Retained ==
    [k \in BucketKeys |->
        IF rate_limits[k] # NoEntry /\ rate_limits[k].last_seen >= instant - RetainSecs
        THEN rate_limits[k] ELSE NoEntry]

\* guard.entry(key).or_insert(RateLimitState { window_start: now, count: 0, .. })
EntryOrInsert(tbl, k) ==
    IF tbl[k] # NoEntry THEN tbl[k]
    ELSE [window_start |-> instant, count |-> 0, last_seen |-> instant]

\* (mutant) the window is reset only after more than 60 s.
WindowResetLate(entry) ==
    IF instant - entry.window_start > WindowSecs
    THEN [entry EXCEPT !.window_start = instant, !.count = 0]
    ELSE entry

\* if now.duration_since(entry.window_start) >= 60 s { window_start = now; count = 0 }
WindowReset(entry) ==
    IF instant - entry.window_start >= WindowSecs
    THEN [entry EXCEPT !.window_start = instant, !.count = 0]
    ELSE entry

\* (mutant) the comparison with the limit is off by one.
OverLimitLate(entry, limit) == entry.count > limit

\* if entry.count >= limit { 429 }
OverLimit(entry, limit) == entry.count >= limit

\* (mutant) a refused request is counted as well.
CountedAlways(entry, limit) == [entry EXCEPT !.last_seen = instant, !.count = @ + 1]

\* The bucket after the request, last_seen = now and count += 1 if admitted.
Counted(entry, limit) ==
    IF OverLimit(entry, limit)
    THEN [entry EXCEPT !.last_seen = instant]
    ELSE [entry EXCEPT !.last_seen = instant, !.count = @ + 1]

\* One request through the middleware; the bucket is read and written under
\* the rate_limits mutex.
RateLimitRequest(req) ==
    /\ Len(rlog) < MaxRequests
    /\ LET k == BucketKey(req)
           pre == PreBucket(req)
           kept == Retained
           entry == WindowReset(EntryOrInsert(kept, k))
       IN  IF pre # "bucket"
           THEN /\ rlog' = Append(rlog, <<k, instant, pre>>)
                /\ UNCHANGED rate_limits
           ELSE /\ rate_limits' = [kept EXCEPT ![k] = Counted(entry, BucketLimit(req))]
                /\ rlog' = Append(rlog,
                      <<k, instant, IF OverLimit(entry, BucketLimit(req)) THEN "429" ELSE "next">>)
    /\ UNCHANGED <<instant, rticks, rate_limit_user_per_minute, rate_limit_ip_per_minute,
                   rate_limit_allow_users, rate_limit_allow_ips, rate_limit_block_users,
                   rate_limit_block_ips, queueVars, hlsVars, matchVars, scanVars, servVars, admVars, flightVars, moreVars>>

\* Time passes between requests.
RateTick ==
    /\ rticks < MaxRateTicks
    /\ rticks' = rticks + 1
    /\ \E d \in RateSteps : instant' = instant + d
    /\ UNCHANGED <<rate_limits, rlog, rate_limit_user_per_minute, rate_limit_ip_per_minute,
                   rate_limit_allow_users, rate_limit_allow_ips, rate_limit_block_users,
                   rate_limit_block_ips, queueVars, hlsVars, matchVars, scanVars, servVars, admVars, flightVars, moreVars>>

\* No request yet.
RateIdle ==
    /\ rate_limits = [k \in BucketKeys |-> NoEntry]
    /\ instant = 0
    /\ rticks = 0
    /\ rlog = <<>>

\* AppState::new with the default rate-limit configuration (everything off).
ApiIdleRate ==
    /\ RateIdle
    /\ rate_limit_user_per_minute = 0
    /\ rate_limit_ip_per_minute = 0
    /\ rate_limit_allow_users = {}
    /\ rate_limit_allow_ips = {}
    /\ rate_limit_block_users = {}
    /\ rate_limit_block_ips = {}

\* ------------------------------------------------------- stream_handler

\* A path id that is white space only (GET /api/stream/%20).
BlankId == " "

\* The path ids of GET /api/stream/:id.
StreamIds == {"m1", BlankId}

\* The tokens of its callers: none, or a user's.
StreamTokens == {MissingToken, [kind |-> "valid", sub |-> "u1", role_level |-> 1]}

NoStreamRequest == [token |-> MissingToken, id |-> BlankId]

NoUrl == [token |-> MissingToken, id |-> BlankId, file |-> "null"]

NoResponse == [status |-> "null", playlist_url |-> NoUrl, job_id |-> 0]

\* media_id.trim().is_empty()
IsBlank(id) == id = BlankId

\* format!("/hls/{}/{}/index.m3u8", auth.token, id)
PlaylistUrl(token, id) == [token |-> token, id |-> id, file |-> "index.m3u8"]

\* state.config.hls_root().join(&id).join("index.m3u8").exists()
PlaylistPathExists(id) == id \in playlist

\* enqueue_hls_job's call: enqueue_job(db, "hls", {media_id}, max, Some(media_id))
HlsJob(id) == [job_type |-> "hls", dedup_key |-> id]

\* stream_handler up to its response, or up to enqueue_hls_job's call of
\* enqueue_job.
StreamRequest(e, token, id) ==
    /\ stream_resp[e].status # "pending"
    /\ stream_calls[e] < MaxStreamCalls
    /\ stream_calls' = [stream_calls EXCEPT ![e] = @ + 1]
    /\ stream_req' = [stream_req EXCEPT ![e] = [token |-> token, id |-> id]]
    /\ IF require_auth(token).status # "ok"
       THEN /\ stream_resp' = [stream_resp EXCEPT ![e] =
                                  [NoResponse EXCEPT !.status = require_auth(token).status]]
            /\ UNCHANGED queueVars
       ELSE IF PlaylistPathExists(id)
       THEN /\ stream_resp' = [stream_resp EXCEPT ![e] =
                                  [status |-> "200", playlist_url |-> PlaylistUrl(token, id),
                                   job_id |-> 0]]
            /\ UNCHANGED queueVars
       ELSE IF IsBlank(id)
       THEN /\ stream_resp' = [stream_resp EXCEPT ![e] = [NoResponse EXCEPT !.status = "400"]]
            /\ UNCHANGED queueVars
       ELSE /\ EnqueueCall(e, HlsJob(id))
            /\ stream_resp' = [stream_resp EXCEPT ![e] = [NoResponse EXCEPT !.status = "pending"]]
            /\ UNCHANGED cfgVars
    /\ UNCHANGED <<hlsVars, rateVars, matchVars, scanVars, servVars, admVars, flightVars,
                   sseVars, episodeVars, titleVars, lastVars>>

\* enqueue_job has returned: 202 {status: "queued", job_id}.
StreamRespond(e) ==
    /\ stream_resp[e].status = "pending"
    /\ epc[e] = "idle"
    /\ stream_resp' = [stream_resp EXCEPT ![e] =
                          [status |-> "202", playlist_url |-> NoUrl, job_id |-> eret[e]]]
    /\ UNCHANGED <<stream_req, stream_calls, queueVars, hlsVars, rateVars, matchVars,
                   scanVars, servVars, admVars, flightVars, sseVars, episodeVars, titleVars, lastVars>>

\* No request made to GET /api/stream/:id.
StreamIdle ==
    /\ stream_req = [e \in Callers |-> NoStreamRequest]
    /\ stream_resp = [e \in Callers |-> NoResponse]
    /\ stream_calls = [e \in Callers |-> 0]

\* -------------------------------------------- job_status_stream_handler

\* The ids of GET /api/jobs/:id/stream.
JobIds == 1..2

\* The clients that open a job status stream.
SseClients == {"h2"}

\* The clients that enqueue the jobs they watch.
SseProducers == Callers \ SseClients

NoSnapshot == "null"

\* get_job_status: SELECT .. FROM job_queue WHERE id = $1, fetch_optional.
get_job_status(id) == IF id \in DOMAIN jobs THEN jobs[id].status ELSE NoSnapshot

\* job.status == "done" || job.status == "failed"
IsTerminal(status) == status \in {"done", "failed"}

\* job_status_stream_handler: require_auth, the initial get_job_status, then
\* the Sse response around the stream (which has not run yet).
SseOpen(e, token, id) ==
    /\ sse_pc[e] = "closed"
    /\ sse_id' = [sse_id EXCEPT ![e] = id]
    /\ IF require_auth(token).status # "ok"
       THEN /\ sse_pc' = [sse_pc EXCEPT ![e] = "401"]
            /\ UNCHANGED sse_initial
       ELSE IF get_job_status(id) = NoSnapshot
       THEN /\ sse_pc' = [sse_pc EXCEPT ![e] = "404"]
            /\ UNCHANGED sse_initial
       ELSE /\ sse_pc' = [sse_pc EXCEPT ![e] = "initial"]
            /\ sse_initial' = [sse_initial EXCEPT ![e] = get_job_status(id)]
    /\ UNCHANGED <<sse_events, queueVars, hlsVars, rateVars, matchVars, scanVars, servVars,
                   admVars, flightVars, streamVars, episodeVars, titleVars, lastVars>>

\* The stream's first item: yield Event.event(initial.status), then the
\* ticker is made.
SseFirst(e) ==
    /\ sse_pc[e] = "initial"
    /\ sse_events' = [sse_events EXCEPT ![e] = Append(@, sse_initial[e])]
    /\ sse_pc' = [sse_pc EXCEPT ![e] = "loop"]
    /\ UNCHANGED <<sse_id, sse_initial, queueVars, hlsVars, rateVars, matchVars, scanVars,
                   servVars, admVars, flightVars, streamVars, episodeVars, titleVars, lastVars>>

\* One turn of the loop: ticker.tick() (the first completes at once), then
\* get_job_status, the event, and the break on done, failed or no row.
SseTick(e) ==
    /\ sse_pc[e] = "loop"
    /\ Len(sse_events[e]) < MaxEvents
    /\ LET status == get_job_status(sse_id[e]) IN
         IF status = NoSnapshot
         THEN /\ sse_events' = [sse_events EXCEPT ![e] = Append(@, "error")]
              /\ sse_pc' = [sse_pc EXCEPT ![e] = "ended"]
         ELSE /\ sse_events' = [sse_events EXCEPT ![e] = Append(@, status)]
              /\ sse_pc' = [sse_pc EXCEPT ![e] =
                               IF IsTerminal(status) THEN "ended" ELSE "loop"]
    /\ UNCHANGED <<sse_id, sse_initial, queueVars, hlsVars, rateVars, matchVars, scanVars,
                   servVars, admVars, flightVars, streamVars, episodeVars, titleVars, lastVars>>

\* No job status stream opened.
SseIdle ==
    /\ sse_pc = [e \in Callers |-> "closed"]
    /\ sse_id = [e \in Callers |-> 0]
    /\ sse_initial = [e \in Callers |-> NoSnapshot]
    /\ sse_events = [e \in Callers |-> <<>>]

\* ----------------------------------- match_episode_id, parse_episode_number

\* The characters of episode strings, and the strings.
EpisodeChars == {"1", "2", ".", "v"}

EpisodeStrings == UNION {[1..n -> EpisodeChars] : n \in 0..MaxStrLen}

\* Numbers are f64 in the code and thousandths here.  Episode numbers are
\* multiples of 0.5 and targets have the digits 1 and 2 only, so no
\* difference is within rounding distance of 0.01 or 1.0 and the integer
\* comparisons below are the f64 comparisons of the code.
NoNumber == -1

EpisodeNumbers == {1000, 1500, 2000, 12000}

SortNumbers == {1000, 2000}

\* The cached episodes: ep is absent (NoNumber) or a number; ids follow the
\* position in the list.
EpisodeRows == [ep : EpisodeNumbers \cup {NoNumber}, sort : SortNumbers]

EpisodeIdAt(i) == 100 + i

EpisodeLists ==
    UNION {[1..n -> EpisodeRows] : n \in 0..MaxEpisodes}

\* What match_episode_id has not returned yet.
Pending == -2

\* ch.is_ascii_digit()
IsAsciiDigit(ch) == ch \in {"0", "1", "2", "3", "4", "5", "6", "7", "8", "9"}

DigitValue(ch) ==
    CASE ch = "0" -> 0 [] ch = "1" -> 1 [] ch = "2" -> 2 [] ch = "3" -> 3 [] ch = "4" -> 4
      [] ch = "5" -> 5 [] ch = "6" -> 6 [] ch = "7" -> 7 [] ch = "8" -> 8 [] ch = "9" -> 9

\* The for loop of parse_episode_number: digits and dots are pushed to buf,
\* other characters are skipped before the first of them and end the scan
\* after it.
RECURSIVE ScanNumber(_, _, _)
ScanNumber(raw, i, buf) ==
    IF i > Len(raw) THEN buf
    ELSE IF IsAsciiDigit(raw[i]) \/ raw[i] = "." THEN ScanNumber(raw, i + 1, Append(buf, raw[i]))
    ELSE IF buf # <<>> THEN buf
    ELSE ScanNumber(raw, i + 1, buf)

\* The value of a run of digits, and of a run of fraction digits in
\* thousandths (three digits at most are kept).
RECURSIVE DigitsValue(_)
DigitsValue(ds) ==
    IF ds = <<>> THEN 0
    ELSE 10 * DigitsValue(SubSeq(ds, 1, Len(ds) - 1)) + DigitValue(ds[Len(ds)])

FractionValue(ds) ==
    (IF Len(ds) >= 1 THEN 100 * DigitValue(ds[1]) ELSE 0)
    + (IF Len(ds) >= 2 THEN 10 * DigitValue(ds[2]) ELSE 0)
    + (IF Len(ds) >= 3 THEN DigitValue(ds[3]) ELSE 0)

\* buf.parse::<f64>().ok() for a buf of digits and dots: a number when there
\* is one dot at most and one digit at least ("5." and ".5" parse, "." and
\* "1.2.1" do not).
ParseF64(buf) ==
    LET dots == {i \in 1..Len(buf) : buf[i] = "."} IN
      IF Cardinality(dots) > 1 \/ Len(buf) = Cardinality(dots) THEN NoNumber
      ELSE IF dots = {} THEN MaxDiff * DigitsValue(buf)
      ELSE LET d == CHOOSE i \in dots : TRUE IN
             MaxDiff * DigitsValue(SubSeq(buf, 1, d - 1))
             + FractionValue(SubSeq(buf, d + 1, Len(buf)))

\* parse_episode_number
parse_episode_number(raw) ==
    LET buf == ScanNumber(raw, 1, <<>>) IN
      IF buf = <<>> THEN NoNumber ELSE ParseF64(buf)

\* (mutant) sort is used even when ep is there.
EpisodeValueSort(episode) == episode.sort

\* episode.ep.unwrap_or(episode.sort)
EpisodeValue(episode) == IF episode.ep # NoNumber THEN episode.ep ELSE episode.sort

\* (value - target).abs()
AbsDiff(value, target) == IF value >= target THEN value - target ELSE target - value

NoBestEpisode == [id |-> Null, diff |-> 0]

\* The for loop of match_episode_id and the and_then that follows it.
RECURSIVE MatchLoop(_, _, _, _)
MatchLoop(target, eps, i, best) ==
    IF i > Len(eps)
    THEN IF best.id # Null /\ best.diff <= MaxDiff THEN best.id ELSE Null
    ELSE LET diff == AbsDiff(EpisodeValue(eps[i]), target) IN
           IF diff <= ExactDiff THEN EpisodeIdAt(i)
           ELSE IF best.id = Null \/ diff < best.diff
           THEN MatchLoop(target, eps, i + 1, [id |-> EpisodeIdAt(i), diff |-> diff])
           ELSE MatchLoop(target, eps, i + 1, best)

\* match_episode_id: None (Null) or Some(id).
match_episode_id(str, eps) ==
    IF parse_episode_number(str) = NoNumber THEN Null
    ELSE MatchLoop(parse_episode_number(str), eps, 1, NoBestEpisode)

\* A call of match_episode_id.
MatchEpisode ==
    /\ matched = Pending
    /\ matched' = match_episode_id(episode_str, episodes)
    /\ UNCHANGED <<episode_str, episodes, queueVars, hlsVars, rateVars, matchVars, scanVars,
                   servVars, admVars, flightVars, streamVars, sseVars, titleVars, lastVars>>

\* No call of match_episode_id.
EpisodeIdle ==
    /\ episode_str = <<>>
    /\ episodes = <<>>
    /\ matched = Pending

\* ------------------------------------------ normalize_title, similarity

\* The characters of titles: letters, a separator, and U+0130 (capital I
\* with dot above), whose lowercase is the two characters i, U+0307.
TitleChars == {"a", "A", "b", "-", "U+0130"}

Titles == UNION {[1..n -> TitleChars] : n \in 0..MaxTitleLen}

\* char::is_alphanumeric: U+0307 (combining dot above) is a mark, not a
\* letter.
is_alphanumeric(ch) == ch \in {"a", "A", "b", "B", "i", "I", "U+0130"}

\* char::to_lowercase, which can give more than one character.
to_lowercase(ch) ==
    CASE ch = "A" -> <<"a">>
      [] ch = "B" -> <<"b">>
      [] ch = "I" -> <<"i">>
      [] ch = "U+0130" -> <<"i", "U+0307">>
      [] OTHER -> <<ch>>

\* normalize_title: chars().filter(is_alphanumeric).flat_map(to_lowercase)
RECURSIVE normalize_title(_)
normalize_title(value) ==
    IF value = <<>> THEN <<>>
    ELSE (IF is_alphanumeric(Head(value)) THEN to_lowercase(Head(value)) ELSE <<>>)
         \o normalize_title(Tail(value))

\* bigrams: the windows(2) of the characters, none for fewer than two.
bigrams(value) ==
    IF Len(value) < 2 THEN <<>>
    ELSE [i \in 1..(Len(value) - 1) |-> <<value[i], value[i + 1]>>]

\* str::contains for a non-empty pattern.
Contains(a, b) ==
    \E i \in 1..(Len(a) - Len(b) + 1) : SubSeq(a, i, i + Len(b) - 1) = b

\* The inner loop of similarity: the first b bigram not used yet that equals
\* a_bg, or 0.
FirstUnused(a_bg, b_bigrams, b_used) ==
    LET hits == {idx \in 1..Len(b_bigrams) : idx \notin b_used /\ b_bigrams[idx] = a_bg} IN
      IF hits = {} THEN 0 ELSE CHOOSE idx \in hits : \A other \in hits : idx <= other

\* The outer loop of similarity: matches after the a bigrams from i on.
RECURSIVE CountMatches(_, _, _, _, _)
CountMatches(a_bigrams, b_bigrams, i, b_used, matches) ==
    IF i > Len(a_bigrams) THEN matches
    ELSE LET idx == FirstUnused(a_bigrams[i], b_bigrams, b_used) IN
           IF idx = 0 THEN CountMatches(a_bigrams, b_bigrams, i + 1, b_used, matches)
           ELSE CountMatches(a_bigrams, b_bigrams, i + 1, b_used \cup {idx}, matches + 1)

\* An f32 score as the fraction the code computes it from.
Score(num, den) == [num |-> num, den |-> den]

\* similarity: 0.0, 1.0, 0.85, or (2.0 * matches) / (a_bigrams.len() + b_bigrams.len())
similarity(a, b) ==
    IF a = <<>> \/ b = <<>> THEN Score(0, 1)
    ELSE IF a = b THEN Score(1, 1)
    ELSE IF Contains(a, b) \/ Contains(b, a) THEN Score(85, 100)
    ELSE IF bigrams(a) = <<>> \/ bigrams(b) = <<>> THEN Score(0, 1)
    ELSE Score(2 * CountMatches(bigrams(a), bigrams(b), 1, {}, 0),
               Len(bigrams(a)) + Len(bigrams(b)))

NoTitleOut ==
    [done |-> FALSE, norm_a |-> <<>>, norm_b |-> <<>>,
     sim_ab |-> Score(0, 1), sim_ba |-> Score(0, 1), sim_aa |-> Score(0, 1)]

\* normalize_title and similarity are called on the two titles.
ScoreTitles ==
    /\ ~title_out.done
    /\ title_out' = [done |-> TRUE,
                     norm_a |-> normalize_title(title_a),
                     norm_b |-> normalize_title(title_b),
                     sim_ab |-> similarity(title_a, title_b),
                     sim_ba |-> similarity(title_b, title_a),
                     sim_aa |-> similarity(title_a, title_a)]
    /\ UNCHANGED <<title_a, title_b, queueVars, hlsVars, rateVars, matchVars, scanVars,
                   servVars, admVars, flightVars, streamVars, sseVars, episodeVars, lastVars>>

\* No title scored.
TitleIdle ==
    /\ title_a = <<>>
    /\ title_b = <<>>
    /\ title_out = NoTitleOut

\* ------------------------------------------ job_worker_loop, process_job

\* The job types the worker knows, and one it does not.
JobTypes == {"index", "auto-match", "hls", "thumb"}

NoOutcome == [kind |-> "none", text |-> NoText]

\* What the three branches of process_job can return: Ok(Some(value)) or
\* Err(message).
BranchOutcomes(job_type) ==
    CASE job_type = "index" ->
             {[kind |-> "ok", text |-> "summary"], [kind |-> "err", text |-> "index failed: io"]}
      [] job_type = "auto-match" ->
             {[kind |-> "ok", text |-> "summary"],
              [kind |-> "err", text |-> "auto match failed: http"]}
      [] job_type = "hls" ->
             {[kind |-> "ok", text |-> "media_id"], [kind |-> "err", text |-> "missing media_id"]}
      [] OTHER -> {NoOutcome}

\* (mutant) a job of an unknown type is taken for done.
process_job_unknown_ok(job_type, branch) ==
    IF job_type \in {"index", "auto-match", "hls"}
    THEN branch
    ELSE [kind |-> "ok", text |-> NoText]

\* match job.job_type.as_str() { "index" => .., "auto-match" => .., "hls" => ..,
\*   _ => Err(format!("unknown job type: {}", job.job_type)) }
process_job(job_type, branch) ==
    IF job_type \in {"index", "auto-match", "hls"}
    THEN branch
    ELSE [kind |-> "err", text |-> "unknown job type: " \o job_type]

\* process_job(&state, job).await returns.
ProcessJob(w) ==
    /\ wpc[w] = "process"
    /\ whout[w] = NoOutcome
    /\ \E branch \in BranchOutcomes(wjob[w].job_type) :
          whout' = [whout EXCEPT ![w] = process_job(wjob[w].job_type, branch)]
    /\ UNCHANGED <<reports, queueVars, hlsVars, rateVars, matchVars, scanVars, servVars,
                   admVars, flightVars, streamVars, sseVars, episodeVars, titleVars>>

\* The call the worker loop makes for what process_job returned.
ReportCall(w) ==
    IF whout[w].kind = "ok"
    THEN [worker |-> w, call |-> "complete_job", job_id |-> wjob[w].id, attempts |-> 0,
          max_attempts |-> 0, text |-> whout[w].text]
    ELSE [worker |-> w, call |-> "fail_job", job_id |-> wjob[w].id,
          attempts |-> wjob[w].attempts, max_attempts |-> wjob[w].max_attempts,
          text |-> whout[w].text]

\* Ok(result) => complete_job(db, job_id, result), Err(err) => fail_job(db, job_id,
\* attempts, max_attempts, &err); then the loop polls again.
WorkerReport(w) ==
    /\ wpc[w] = "process"
    /\ whout[w] # NoOutcome
    /\ ~Locked(wjob[w].id)
    /\ jobs' = IF ReportCall(w).call = "complete_job"
               THEN complete_job(ReportCall(w).job_id, ReportCall(w).text)
               ELSE fail_job(ReportCall(w).job_id, ReportCall(w).attempts,
                             ReportCall(w).max_attempts, ReportCall(w).text)
    /\ reports' = Append(reports, ReportCall(w))
    /\ whout' = [whout EXCEPT ![w] = NoOutcome]
    /\ wpc' = [wpc EXCEPT ![w] = "poll"]
    /\ wjob' = [wjob EXCEPT ![w] = NoJob]
    /\ equiet' = Quiet(jobs')
    /\ UNCHANGED <<next_id, now, epc, ereq, eret, ecalls, econc, cpc, cfgVars, revoked,
                   hlsVars, rateVars, matchVars, scanVars, servVars, admVars, flightVars,
                   streamVars, sseVars, episodeVars, titleVars>>

\* No worker has a job in hand.
WorkerIdle ==
    /\ whout = [w \in Workers |-> NoOutcome]
    /\ reports = <<>>

\* The parts added last at rest.
LastIdle == WorkerIdle

\* The stream routes and the library's pure functions at rest.
MoreIdle ==
    /\ StreamIdle
    /\ SseIdle
    /\ EpisodeIdle
    /\ TitleIdle
    /\ LastIdle

\* The middleware, matching, scanning, serving and admin parts at rest.
RestIdle ==
    /\ ApiIdleRate
    /\ MatchIdle
    /\ ScanIdle
    /\ ServeIdle
    /\ AdminIdle
    /\ FlightIdle

\* Everything beside the queue and the HLS orchestrator at rest.
ApiIdle ==
    /\ ApiIdleRate
    /\ MatchIdle
    /\ ScanIdle
    /\ ServeIdle
    /\ AdminIdle
    /\ FlightIdle
    /\ MoreIdle

\* ---------------------------------------------------------------- clock

TicksUsed(t) == (t \div SecsPerHour) + ((t % SecsPerHour) \div BackoffSecs)

Tick ==
    /\ \E d \in TickSteps :
          /\ TicksUsed(now + d) <= MaxTicks
          /\ now' = now + d
    /\ UNCHANGED <<jobs, next_id, wpc, wjob, epc, ereq, eret, ecalls, econc, equiet, cpc,
                   cfgVars, hlsVars, apiVars, revoked>>

\* -------------------------------------------------------- specification

Init ==
    /\ jobs = <<>>
    /\ next_id = 1
    /\ now = 0
    /\ wpc = [w \in Workers |-> "poll"]
    /\ wjob = [w \in Workers |-> NoJob]
    /\ epc = [e \in Callers |-> "idle"]
    /\ ereq = [e \in Callers |-> CHOOSE r \in Requests : TRUE]
    /\ eret = [e \in Callers |-> 0]
    /\ ecalls = [e \in Callers |-> 0]
    /\ econc = [e \in Callers |-> {}]
    /\ equiet = [e \in Callers |-> TRUE]
    /\ cpc = "requeue_failed"
    /\ job_max_attempts \in MaxAttemptsChoices
    /\ job_retention_hours = 1
    /\ revoked = {}
    /\ hls_lock_timeout_secs = HlsLockTimeoutSecs
    /\ max_hls_concurrency = MaxHlsConcurrency
    /\ HlsIdle
    /\ ApiIdle

Next ==
    \/ \E e \in Callers, req \in Requests : EnqueueBegin(e, req)
    \/ \E e \in Callers : EnqueueInsert(e)
    \/ \E e \in Callers : EnqueueLookup(e)
    \/ \E e \in Callers : EnqueueFallback(e)
    \/ \E w \in Workers : FetchSelect(w)
    \/ \E w \in Workers : FetchNone(w)
    \/ \E w \in Workers : FetchUpdate(w)
    \/ \E w \in Workers : Complete(w)
    \/ \E w \in Workers : Fail(w)
    \/ RequeueFailed
    \/ RequeueRetry
    \/ Cleanup
    \/ Tick

Spec == Init /\ [][Next]_vars

\* The retry scenario: job_max_attempts = 3, every handler returns Err, and the
\* cleanup loop runs no timeout sweep.
InitRetry ==
    /\ jobs = <<>>
    /\ next_id = 1
    /\ now = 0
    /\ wpc = [w \in Workers |-> "poll"]
    /\ wjob = [w \in Workers |-> NoJob]
    /\ epc = [e \in Callers |-> "idle"]
    /\ ereq = [e \in Callers |-> CHOOSE r \in Requests : TRUE]
    /\ eret = [e \in Callers |-> 0]
    /\ ecalls = [e \in Callers |-> 0]
    /\ econc = [e \in Callers |-> {}]
    /\ equiet = [e \in Callers |-> TRUE]
    /\ cpc = "requeue_failed"
    /\ job_max_attempts = 3
    /\ job_retention_hours = 1
    /\ revoked = {}
    /\ hls_lock_timeout_secs = HlsLockTimeoutSecs
    /\ max_hls_concurrency = MaxHlsConcurrency
    /\ HlsIdle
    /\ ApiIdle

TickBackoff ==
    /\ now + BackoffSecs <= MaxBackoffTicks * BackoffSecs
    /\ now' = now + BackoffSecs
    /\ UNCHANGED <<jobs, next_id, wpc, wjob, epc, ereq, eret, ecalls, econc, equiet, cpc,
                   cfgVars, hlsVars, apiVars, revoked>>

NextRetry ==
    \/ \E e \in Callers, req \in Requests : EnqueueBegin(e, req)
    \/ \E e \in Callers : EnqueueInsert(e)
    \/ \E e \in Callers : EnqueueLookup(e)
    \/ \E e \in Callers : EnqueueFallback(e)
    \/ \E w \in Workers : FetchSelect(w)
    \/ \E w \in Workers : FetchNone(w)
    \/ \E w \in Workers : FetchUpdate(w)
    \/ \E w \in Workers : Fail(w)
    \/ TickBackoff

SpecRetry == InitRetry /\ [][NextRetry]_vars

\* The hls branch of process_job on its own: the workers run hls jobs for any
\* media ids, under either lock timeout and either concurrency limit.
InitHls ==
    /\ jobs = <<>>
    /\ next_id = 1
    /\ now = 0
    /\ wpc = [w \in Workers |-> "poll"]
    /\ wjob = [w \in Workers |-> NoJob]
    /\ epc = [e \in Callers |-> "idle"]
    /\ ereq = [e \in Callers |-> CHOOSE r \in Requests : TRUE]
    /\ eret = [e \in Callers |-> 0]
    /\ ecalls = [e \in Callers |-> 0]
    /\ econc = [e \in Callers |-> {}]
    /\ equiet = [e \in Callers |-> TRUE]
    /\ cpc = "requeue_failed"
    /\ job_max_attempts = 1
    /\ job_retention_hours = 1
    /\ revoked = {}
    /\ hls_lock_timeout_secs \in HlsLockTimeoutChoices
    /\ max_hls_concurrency \in HlsConcurrencyChoices
    /\ HlsIdle
    /\ ApiIdle

NextHls ==
    \/ \E w \in Workers, m \in MediaIds : HlsBegin(w, m)
    \/ \E w \in Workers : AcquirePermit(w)
    \/ \E w \in Workers : AcquireMutex(w)
    \/ \E w \in Workers : FindEntry(w)
    \/ \E w \in Workers : PlaylistExists(w)
    \/ \E w \in Workers : CreateLock(w)
    \/ \E w \in Workers : LockIsStale(w)
    \/ \E w \in Workers : RemoveStaleLock(w)
    \/ \E w \in Workers : SpawnFfmpeg(w)
    \/ \E w \in Workers : SpawnFails(w)
    \/ \E w \in Workers : ReportJob(w)
    \/ \E c \in children : FfmpegWritesPlaylist(c)
    \/ \E c \in children : FfmpegExits(c)
    \/ \E c \in children : WaiterRemovesLock(c)
    \/ Tick

SpecHls == InitHls /\ [][NextHls]_vars

\* An empty job queue with idle workers, callers and cleanup loop, under the
\* default configuration of the model.
QueueIdle ==
    /\ jobs = <<>>
    /\ next_id = 1
    /\ now = 0
    /\ wpc = [w \in Workers |-> "poll"]
    /\ wjob = [w \in Workers |-> NoJob]
    /\ epc = [e \in Callers |-> "idle"]
    /\ ereq = [e \in Callers |-> CHOOSE r \in Requests : TRUE]
    /\ eret = [e \in Callers |-> 0]
    /\ ecalls = [e \in Callers |-> 0]
    /\ econc = [e \in Callers |-> {}]
    /\ equiet = [e \in Callers |-> TRUE]
    /\ cpc = "requeue_failed"
    /\ job_max_attempts = 1
    /\ job_retention_hours = 1
    /\ revoked = {}
    /\ hls_lock_timeout_secs = HlsLockTimeoutSecs
    /\ max_hls_concurrency = MaxHlsConcurrency
    /\ HlsIdle

\* The rate-limit middleware under any configuration of its limits and of its
\* allow and block sets.
InitRate ==
    /\ QueueIdle
    /\ FlightIdle
    /\ MoreIdle
    /\ AdminIdle
    /\ ServeIdle
    /\ ScanIdle
    /\ MatchIdle
    /\ RateIdle
    /\ rate_limit_user_per_minute \in RateLimitChoices
    /\ rate_limit_ip_per_minute \in RateLimitChoices
    /\ rate_limit_allow_users \in SUBSET UserIds
    /\ rate_limit_allow_ips \in SUBSET Ips
    /\ rate_limit_block_users \in SUBSET UserIds
    /\ rate_limit_block_ips \in SUBSET Ips

NextRate ==
    \/ \E req \in HttpRequests : RateLimitRequest(req)
    \/ RateTick

SpecRate == InitRate /\ [][NextRate]_vars

\* The worker's auto-match run beside manual match operations, over any parse
\* results and any earlier matches.
InitMatch ==
    /\ QueueIdle
    /\ FlightIdle
    /\ MoreIdle
    /\ AdminIdle
    /\ ServeIdle
    /\ ScanIdle
    /\ ApiIdleRate
    /\ media_parses \in [MediaIds -> ParseKinds]
    /\ media_matches \in [MediaIds -> {NoMatch, [method |-> "auto", subject_id |-> 1, confidence |-> 0]}]
    /\ match_candidates = {}
    /\ bangumi_subjects = {1}
    /\ RunIdle
    /\ mops = 0

NextMatch ==
    \/ \E c, m \in ScoreLevels : AutoMatchStart("worker", c, m)
    \/ NextRow("worker")
    \/ HasManualMatch("worker")
    \/ SearchAnime("worker")
    \/ ClearCandidates("worker")
    \/ ClearAutoMatch("worker")
    \/ ScoreSubject("worker")
    \/ PickBest("worker")
    \/ EpisodeId("worker")
    \/ UpsertAutoMatch("worker")
    \/ \E media_id \in MediaIds, subject_id \in SubjectIds : SetManualMatch(media_id, subject_id)
    \/ \E media_id \in MediaIds : ClearMatch(media_id)

SpecMatch == InitMatch /\ [][NextMatch]_vars

\* The worker's index job and the CLI's index command over a media_dir whose
\* files come and go.
InitScan ==
    /\ QueueIdle
    /\ FlightIdle
    /\ MoreIdle
    /\ AdminIdle
    /\ ServeIdle
    /\ ApiIdleRate
    /\ media_parses = [id \in MediaIds |-> NoKey]
    /\ media_matches = [id \in MediaIds |-> NoMatch]
    /\ match_candidates = {}
    /\ bangumi_subjects = {1}
    /\ RunIdle
    /\ mops = 0
    /\ media_dir \in SUBSET Paths
    /\ media_files = [id \in MediaIds |-> NoToken]
    /\ scan_clock = 0
    /\ spc = [s \in Scanners |-> "idle"]
    /\ sall = [s \in Scanners |-> {}]
    /\ sentries = [s \in Scanners |-> {}]
    /\ stoken = [s \in Scanners |-> 0]
    /\ sneeds = [s \in Scanners |-> FALSE]
    /\ swrites = [s \in Scanners |-> [id \in MediaIds |-> Untouched]]
    /\ sparsed = [s \in Scanners |-> {}]
    /\ sdel = [s \in Scanners |-> {}]
    /\ sruns = 0
    /\ dir_changes = 0
    /\ file_meta = [p \in Paths |-> [size |-> 1, modified_at |-> 1]]
    /\ media_meta = [id \in MediaIds |-> NoMeta]
    /\ smeta = [s \in Scanners |-> [id \in MediaIds |-> NoMeta]]
    /\ ssize = [s \in Scanners |-> [p \in Paths |-> 0]]
    /\ smodified = [s \in Scanners |-> 0]

NextScan ==
    \/ \E s \in Scanners : ScanMedia(s)
    \/ \E s \in Scanners : FetchMediaMeta(s)
    \/ \E s \in Scanners : UpsertMediaFile(s)
    \/ \E s \in Scanners : DeleteStaleBegin(s)
    \/ \E s \in Scanners : DeleteStaleEnd(s)
    \/ \E s \in Scanners : ScanCommit(s)
    \/ \E s \in Scanners : ScanFails(s)
    \/ \E p \in Paths : DirChange(p)
    \/ \E p \in Paths : FileChange(p)

SpecScan == InitScan /\ [][NextScan]_vars

\* Requests for HLS files over the file systems of the model.
InitServe ==
    /\ QueueIdle
    /\ FlightIdle
    /\ MoreIdle
    /\ AdminIdle
    /\ ApiIdleRate
    /\ MatchIdle
    /\ ScanIdle
    /\ fs_root \in BOOLEAN
    /\ fs_link \in BOOLEAN
    /\ fs_secret \in BOOLEAN
    /\ hls_req = NoHlsRequest
    /\ hls_status = "null"
    /\ hls_opened = NoPath
    /\ serves = 0

NextServe == \E token \in Tokens, id \in HlsIds, file \in HlsFiles : HlsFileRequest(token, id, file)

SpecServe == InitServe /\ [][NextServe]_vars

\* Two clients on the admin-only routes; no worker takes the jobs, so the
\* lookup after a conflicting insert always finds the active row.
InitAdmin ==
    /\ QueueIdle
    /\ ApiIdle

NextAdmin ==
    \/ \E e \in Callers, req \in AdminRequests : AdminRequest(e, req)
    \/ \E e \in Callers : EnqueueInsert(e)
    \/ \E e \in Callers : EnqueueLookup(e)
    \/ \E e \in Callers : AdminRespond(e)

SpecAdmin == InitAdmin /\ [][NextAdmin]_vars

\* Requests entering and leaving the in-flight middleware.
InitFlight ==
    /\ QueueIdle
    /\ ApiIdle

NextFlight ==
    \/ \E c \in Conns : InFlightEnter(c)
    \/ \E c \in Conns, path \in ExitPaths : InFlightExit(c, path)

SpecFlight == InitFlight /\ [][NextFlight]_vars

\* The queue under either retention setting: job_retention_hours = 0 (cleanup
\* disabled) or a positive retention.
InitRetention ==
    /\ jobs = <<>>
    /\ next_id = 1
    /\ now = 0
    /\ wpc = [w \in Workers |-> "poll"]
    /\ wjob = [w \in Workers |-> NoJob]
    /\ epc = [e \in Callers |-> "idle"]
    /\ ereq = [e \in Callers |-> CHOOSE r \in Requests : TRUE]
    /\ eret = [e \in Callers |-> 0]
    /\ ecalls = [e \in Callers |-> 0]
    /\ econc = [e \in Callers |-> {}]
    /\ equiet = [e \in Callers |-> TRUE]
    /\ cpc = "requeue_failed"
    /\ job_max_attempts = 1
    /\ job_retention_hours \in RetentionChoices
    /\ revoked = {}
    /\ hls_lock_timeout_secs = HlsLockTimeoutSecs
    /\ max_hls_concurrency = MaxHlsConcurrency
    /\ HlsIdle
    /\ ApiIdle

SpecRetention == InitRetention /\ [][Next]_vars

\* GET /api/stream/:id beside the workers, with or without m1's playlist.
InitStream ==
    /\ jobs = <<>>
    /\ next_id = 1
    /\ now = 0
    /\ wpc = [w \in Workers |-> "poll"]
    /\ wjob = [w \in Workers |-> NoJob]
    /\ epc = [e \in Callers |-> "idle"]
    /\ ereq = [e \in Callers |-> CHOOSE r \in Requests : TRUE]
    /\ eret = [e \in Callers |-> 0]
    /\ ecalls = [e \in Callers |-> 0]
    /\ econc = [e \in Callers |-> {}]
    /\ equiet = [e \in Callers |-> TRUE]
    /\ cpc = "requeue_failed"
    /\ job_max_attempts = 1
    /\ job_retention_hours = 1
    /\ revoked = {}
    /\ hls_lock_timeout_secs = HlsLockTimeoutSecs
    /\ max_hls_concurrency = MaxHlsConcurrency
    /\ hpc = [w \in Workers |-> "idle"]
    /\ hmedia = [w \in Workers |-> CHOOSE m \in MediaIds : TRUE]
    /\ hcalls = [w \in Workers |-> 0]
    /\ hconc = [w \in Workers |-> {}]
    /\ hspawned = [w \in Workers |-> FALSE]
    /\ hls_permits = max_hls_concurrency
    /\ hls_locks = [m \in MediaIds |-> NoWorker]
    /\ playlist \in SUBSET {"m1"}
    /\ lockfile = [m \in MediaIds |-> NoLock]
    /\ children = {}
    /\ spawns = [m \in MediaIds |-> 0]
    /\ RestIdle
    /\ MoreIdle

NextStream ==
    \/ \E e \in Callers, token \in StreamTokens, id \in StreamIds : StreamRequest(e, token, id)
    \/ \E e \in Callers : EnqueueInsert(e)
    \/ \E e \in Callers : EnqueueLookup(e)
    \/ \E e \in Callers : EnqueueFallback(e)
    \/ \E e \in Callers : StreamRespond(e)
    \/ \E w \in Workers : FetchSelect(w)
    \/ \E w \in Workers : FetchNone(w)
    \/ \E w \in Workers : FetchUpdate(w)
    \/ \E w \in Workers : Complete(w)
    \/ \E w \in Workers : Fail(w)

SpecStream == InitStream /\ [][NextStream]_vars

\* A job status stream beside a caller of enqueue_job, the workers and the
\* cleanup loop.
InitSse ==
    /\ QueueIdle
    /\ ApiIdle

NextSse ==
    \/ \E e \in SseProducers, req \in Requests : EnqueueBegin(e, req)
    \/ \E e \in SseProducers : EnqueueInsert(e)
    \/ \E w \in Workers : FetchSelect(w)
    \/ \E w \in Workers : FetchNone(w)
    \/ \E w \in Workers : FetchUpdate(w)
    \/ \E w \in Workers : Complete(w)
    \/ \E w \in Workers : Fail(w)
    \/ RequeueFailed
    \/ RequeueRetry
    \/ Cleanup
    \/ Tick
    \/ \E e \in SseClients, token \in StreamTokens, id \in JobIds : SseOpen(e, token, id)
    \/ \E e \in SseClients : SseFirst(e)
    \/ \E e \in SseClients : SseTick(e)

SpecSse == InitSse /\ [][NextSse]_vars

\* match_episode_id on any episode string and any list of cached episodes.
InitEpisode ==
    /\ QueueIdle
    /\ RestIdle
    /\ StreamIdle
    /\ SseIdle
    /\ TitleIdle
    /\ episode_str \in EpisodeStrings
    /\ episodes \in EpisodeLists
    /\ matched = Pending
    /\ LastIdle

NextEpisode == MatchEpisode

SpecEpisode == InitEpisode /\ [][NextEpisode]_vars

\* normalize_title and similarity on any two titles.
InitTitle ==
    /\ QueueIdle
    /\ RestIdle
    /\ StreamIdle
    /\ SseIdle
    /\ EpisodeIdle
    /\ title_a \in Titles
    /\ title_b \in Titles
    /\ title_out = NoTitleOut
    /\ LastIdle

NextTitle == ScoreTitles

SpecTitle == InitTitle /\ [][NextTitle]_vars

\* The times at which something in the queue becomes possible: a queued or
\* retry row's scheduled_at, and the first instant at which a running row's
\* lease is older than the running timeout.
EventTimes ==
    {jobs[i].scheduled_at : i \in {k \in DOMAIN jobs : jobs[k].status \in {"queued", "retry"}}}
    \cup {jobs[i].locked_at + JobRunningTimeoutSecs + 1 :
              i \in {k \in DOMAIN jobs : jobs[k].status = "running"}}

\* Time passes, up to one of the times the queue waits for.
TickDue ==
    /\ \E t \in EventTimes :
          /\ t > now
          /\ now' = t
    /\ UNCHANGED <<jobs, next_id, wpc, wjob, epc, ereq, eret, ecalls, econc, equiet, cpc,
                   cfgVars, hlsVars, apiVars, revoked>>

\* One caller's jobs under the worker loops and the cleanup
\* loop, every loop scheduled fairly and every handler returning.
InitLive ==
    /\ jobs = <<>>
    /\ next_id = 1
    /\ now = 0
    /\ wpc = [w \in Workers |-> "poll"]
    /\ wjob = [w \in Workers |-> NoJob]
    /\ epc = [e \in Callers |-> "idle"]
    /\ ereq = [e \in Callers |-> CHOOSE r \in Requests : TRUE]
    /\ eret = [e \in Callers |-> 0]
    /\ ecalls = [e \in Callers |-> 0]
    /\ econc = [e \in Callers |-> {}]
    /\ equiet = [e \in Callers |-> TRUE]
    /\ cpc = "requeue_failed"
    /\ job_max_attempts \in MaxAttemptsChoices
    /\ job_retention_hours = 1
    /\ revoked = {}
    /\ hls_lock_timeout_secs = HlsLockTimeoutSecs
    /\ max_hls_concurrency = MaxHlsConcurrency
    /\ HlsIdle
    /\ ApiIdle

NextLive ==
    \/ \E e \in SseProducers, req \in Requests : EnqueueBegin(e, req)
    \/ \E e \in SseProducers : EnqueueInsert(e)
    \/ \E w \in Workers : FetchSelect(w)
    \/ \E w \in Workers : FetchNone(w)
    \/ \E w \in Workers : FetchUpdate(w)
    \/ \E w \in Workers : Complete(w)
    \/ \E w \in Workers : Fail(w)
    \/ RequeueFailed
    \/ RequeueRetry
    \/ Cleanup
    \/ TickDue

\* job_worker_loop and job_cleanup_loop are tokio tasks that run for ever:
\* each of their steps happens when it stays possible, and so does each step
\* of a call of enqueue_job; process_job returns, with Ok or with Err.
FairLive ==
    /\ \A w \in Workers : WF_vars(FetchSelect(w))
    /\ \A w \in Workers : WF_vars(FetchUpdate(w))
    /\ \A w \in Workers : WF_vars(Complete(w) \/ Fail(w))
    /\ \A e \in Callers : WF_vars(EnqueueInsert(e))
    /\ WF_vars(RequeueFailed)
    /\ WF_vars(RequeueRetry)
    /\ WF_vars(Cleanup)
    /\ WF_vars(TickDue)

SpecLive == InitLive /\ [][NextLive]_vars /\ FairLive

\* The worker loops over a queue that holds jobs of any type, each handler
\* returning Ok or Err; the cleanup loop runs no sweep.
InitWorker ==
    /\ now = 0
    /\ job_max_attempts \in MaxAttemptsChoices
    /\ \E n \in 1..MaxJobs : \E types \in [1..n -> JobTypes] :
          /\ jobs = [i \in 1..n |-> NewRow(types[i], job_max_attempts, NoKey)]
          /\ next_id = n + 1
    /\ wpc = [w \in Workers |-> "poll"]
    /\ wjob = [w \in Workers |-> NoJob]
    /\ epc = [e \in Callers |-> "idle"]
    /\ ereq = [e \in Callers |-> CHOOSE r \in Requests : TRUE]
    /\ eret = [e \in Callers |-> 0]
    /\ ecalls = [e \in Callers |-> 0]
    /\ econc = [e \in Callers |-> {}]
    /\ equiet = [e \in Callers |-> TRUE]
    /\ cpc = "requeue_failed"
    /\ job_retention_hours = 1
    /\ revoked = {}
    /\ hls_lock_timeout_secs = HlsLockTimeoutSecs
    /\ max_hls_concurrency = MaxHlsConcurrency
    /\ HlsIdle
    /\ ApiIdle

NextWorker ==
    \/ \E w \in Workers : FetchSelect(w)
    \/ \E w \in Workers : FetchNone(w)
    \/ \E w \in Workers : FetchUpdate(w)
    \/ \E w \in Workers : ProcessJob(w)
    \/ \E w \in Workers : WorkerReport(w)
    \/ TickBackoff

SpecWorker == InitWorker /\ [][NextWorker]_vars

\* A queue that holds one job when a second one is enqueued, with the clock
\* moving from one due time to the next: every backoff and every lease timeout
\* runs out.
InitOrder ==
    /\ now = 0
    /\ job_max_attempts \in MaxAttemptsChoices
    /\ \E req \in Requests :
          jobs = [i \in {1} |-> NewRow(req.job_type, job_max_attempts, req.dedup_key)]
    /\ next_id = 2
    /\ wpc = [w \in Workers |-> "poll"]
    /\ wjob = [w \in Workers |-> NoJob]
    /\ epc = [e \in Callers |-> "idle"]
    /\ ereq = [e \in Callers |-> CHOOSE r \in Requests : TRUE]
    /\ eret = [e \in Callers |-> 0]
    /\ ecalls = [e \in Callers |-> 0]
    /\ econc = [e \in Callers |-> {}]
    /\ equiet = [e \in Callers |-> TRUE]
    /\ cpc = "requeue_failed"
    /\ job_retention_hours = 1
    /\ revoked = {}
    /\ hls_lock_timeout_secs = HlsLockTimeoutSecs
    /\ max_hls_concurrency = MaxHlsConcurrency
    /\ HlsIdle
    /\ ApiIdle

SpecOrder == InitOrder /\ [][NextLive]_vars

\* The worker's auto-match job, with the options of its payload, and the
\* CLI's auto-match, with the default options, over one parsed media.
InitCandidates ==
    /\ QueueIdle
    /\ FlightIdle
    /\ MoreIdle
    /\ AdminIdle
    /\ ServeIdle
    /\ ScanIdle
    /\ ApiIdleRate
    /\ media_parses = [m \in MediaIds |-> IF m = "m1" THEN "titled" ELSE NoKey]
    /\ media_matches = [m \in MediaIds |-> NoMatch]
    /\ match_candidates = {}
    /\ bangumi_subjects = {1}
    /\ RunIdle
    /\ mops = 0

NextCandidates ==
    \/ \E c, m \in ScoreLevels : AutoMatchStart("worker", c, m)
    \/ AutoMatchStart("cli", DefaultOptions.min_candidate_score,
                      DefaultOptions.min_confidence)
    \/ \E r \in Matchers : NextRow(r)
    \/ \E r \in Matchers : HasManualMatch(r)
    \/ \E r \in Matchers : SearchAnime(r)
    \/ \E r \in Matchers : ClearCandidates(r)
    \/ \E r \in Matchers : ClearAutoMatch(r)
    \/ \E r \in Matchers : ScoreSubject(r)
    \/ \E r \in Matchers : PickBest(r)
    \/ \E r \in Matchers : EpisodeId(r)
    \/ \E r \in Matchers : UpsertAutoMatch(r)

SpecCandidates == InitCandidates /\ [][NextCandidates]_vars

\* ================================================================ claims

KeyedPairs == {r \in Requests : r.dedup_key # NoKey}

RowsOf(tbl, req) ==
    {i \in DOMAIN tbl : tbl[i].job_type = req.job_type /\ tbl[i].dedup_key = req.dedup_key}

ActiveRowsOf(tbl, req) == {i \in RowsOf(tbl, req) : tbl[i].status \in ActiveStatuses}

\* C1: in every reachable state, each (job_type, dedup_key) with a non-null key
\* has at most one row whose status is queued, running or retry.
C1_AtMostOneActivePerKey ==
    \A req \in KeyedPairs : Cardinality(ActiveRowsOf(jobs, req)) <= 1

\* C1 witness: a finished row and an active row share one (job_type, dedup_key)
\* while a worker still holds the finished row's job.
C1_Witness ==
    \E req \in KeyedPairs : \E i, k \in RowsOf(jobs, req) :
        /\ i # k
        /\ jobs[i].status \in {"done", "failed"}
        /\ jobs[k].status \in ActiveStatuses
        /\ \E w \in Workers : wpc[w] = "process" /\ wjob[w].id = i

\* ---- C2

Returned(e) == epc[e] = "idle" /\ ecalls[e] > 0

\* The last calls of e and f overlapped in time.
Concurrent(e, f) == f \in econc[e] \/ e \in econc[f]

\* e's call returns in this step while f's concurrent call with the same keyed
\* request has returned already.
SecondReturn(e, f) ==
    /\ e # f
    /\ epc[e] # "idle" /\ epc'[e] = "idle"
    /\ Returned(f)
    /\ Concurrent(e, f)
    /\ ereq[e] = ereq[f]
    /\ ereq[e].dedup_key # NoKey

\* C2 as claimed: two concurrent enqueue calls with the same job_type and non-null
\* dedup_key return the same job id and leave exactly one row for that key.
C2_SameIdOneRow ==
    [][\A e, f \in Callers :
          SecondReturn(e, f) =>
              /\ eret'[e] = eret[f]
              /\ Cardinality(RowsOf(jobs', ereq[e])) = 1]_vars

\* C2 amended: when no row of that key leaves the active statuses while either
\* call is in progress, both calls return the same id, and that row is the one
\* active row of the key.
C2_SameIdWhileActive ==
    [][\A e, f \in Callers :
          (SecondReturn(e, f) /\ equiet'[e] /\ equiet[f]) =>
              /\ eret'[e] = eret[f]
              /\ ActiveRowsOf(jobs', ereq[e]) = {eret[f]}]_vars

\* C2 witness: both concurrent calls have returned the same id, the second one
\* from the lookup that follows the conflicting insert.
C2_Witness ==
    \E e, f \in Callers :
        /\ e # f /\ Returned(e) /\ Returned(f) /\ Concurrent(e, f)
        /\ ereq[e] = ereq[f] /\ ereq[e].dedup_key # NoKey
        /\ equiet[e] /\ equiet[f]
        /\ eret[e] = eret[f] /\ eret[e] # 0
        /\ jobs[eret[e]].status = "running"

\* ---- C3

\* w's fetch_next_job commits its lease and returns the job in this step.
Leases(w) == wpc[w] = "leasing" /\ wpc'[w] = "process"

\* C3: a fetch_next never returns a row that another fetch_next has leased and
\* that is still running, nor a row that another fetch_next has selected.
C3_NoRowLeasedTwice ==
    [][\A w \in Workers :
          Leases(w) =>
              /\ jobs[wjob[w].id].status \in {"queued", "retry"}
              /\ \A v \in Workers \ {w} :
                    ~(wpc[v] = "leasing" /\ wjob[v].id = wjob[w].id)]_vars

\* C3 witness: two workers are inside fetch_next at once, each holding the lock
\* of a different row.
C3_Witness ==
    \E w, v \in Workers :
        /\ w # v
        /\ wpc[w] = "leasing" /\ wpc[v] = "leasing"
        /\ wjob[w].id # wjob[v].id

\* ---- C4

Processing(w, id) == wpc[w] = "process" /\ wjob[w].id = id

\* C4 as claimed: no two workers ever process the same job id at the same time.
C4_OneWorkerPerJob ==
    \A w, v \in Workers : \A id \in 1..(next_id - 1) :
        (Processing(w, id) /\ Processing(v, id)) => w = v

\* C4 amended: two workers process the same job id at the same time only after
\* requeue_stuck has taken the row out of running, and they then hold leases
\* with different attempt numbers.
C4_OneWorkerPerLease ==
    \A w, v \in Workers : \A id \in 1..(next_id - 1) :
        (Processing(w, id) /\ Processing(v, id) /\ w # v) =>
            /\ id \in revoked
            /\ wjob[w].attempts # wjob[v].attempts

\* C4 witness: two workers process the same job, one on a revoked lease.
C4_Witness ==
    \E w, v \in Workers : \E id \in Ids :
        /\ w # v /\ Processing(w, id) /\ Processing(v, id)
        /\ jobs[id].status = "running" /\ jobs[id].locked_by = v

\* ---- C5

\* C5: attempts never exceeds max_attempts, and no step lowers a row's attempts.
C5_AttemptsBoundedMonotone ==
    /\ [](\A i \in Ids : jobs[i].attempts <= jobs[i].max_attempts)
    /\ [][\A i \in Ids \cap DOMAIN jobs' : jobs'[i].attempts >= jobs[i].attempts]_vars

\* C5 witness: a row leased for the second time has used up max_attempts = 2.
C5_Witness ==
    \E i \in Ids :
        /\ jobs[i].status = "running"
        /\ jobs[i].max_attempts = 2
        /\ jobs[i].attempts = 2

\* ---- C6

\* C6: a row that becomes failed, through fail or through requeue_stuck, has
\* attempts = max_attempts at that moment.
C6_FailedAtMaxAttempts ==
    [][\A i \in Ids \cap DOMAIN jobs' :
          (jobs[i].status # "failed" /\ jobs'[i].status = "failed") =>
              jobs'[i].attempts = jobs'[i].max_attempts]_vars

\* C6 witness: one row failed through fail_job and another through requeue_stuck.
C6_Witness ==
    \E i, k \in Ids :
        /\ jobs[i].status = "failed" /\ jobs[i].last_error = "boom"
        /\ jobs[k].status = "failed" /\ jobs[k].last_error = "timeout"

\* ---- C7

\* One step of a row along queued -> running -> retry -> running -> retry ->
\* running -> failed, attempts being 1, 2, 3 at the leases and the retry delay
\* being 30 s * attempts after the failure time.
RetryChainStep(old, new) ==
    \/ /\ old.status = "queued" /\ old.attempts = 0
       /\ new.status = "running" /\ new.attempts = 1
    \/ /\ old.status = "running" /\ old.attempts \in {1, 2}
       /\ new.status = "retry" /\ new.attempts = old.attempts
       /\ new.scheduled_at = now + 30 * old.attempts
    \/ /\ old.status = "retry" /\ old.attempts \in {1, 2}
       /\ new.status = "running" /\ new.attempts = old.attempts + 1
       /\ old.scheduled_at <= now
    \/ /\ old.status = "running" /\ old.attempts = 3
       /\ new.status = "failed" /\ new.attempts = 3

\* C7: with max_attempts = 3, handlers that always return Err and no timeout
\* sweep, a job starts queued with attempts 0 and every change of its row is the
\* next step of the chain.
C7_RetrySequence ==
    [][/\ \A i \in Ids :
            /\ i \in DOMAIN jobs'
            /\ jobs'[i] # jobs[i] => RetryChainStep(jobs[i], jobs'[i])
       /\ \A i \in DOMAIN jobs' \ Ids :
            /\ jobs'[i].status = "queued" /\ jobs'[i].attempts = 0
            /\ jobs'[i].max_attempts = 3]_vars

\* C7 witness: a job has gone through the whole chain: failed at attempts 3, its
\* second retry having been scheduled 60 s after the second failure.
C7_Witness ==
    \E i \in Ids :
        /\ jobs[i].status = "failed" /\ jobs[i].attempts = 3
        /\ jobs[i].last_error = "boom"
        /\ jobs[i].scheduled_at = 90

\* ---- C8

\* A running row whose lease is older than now - timeout.
LeaseExpired(row) ==
    /\ row.status = "running"
    /\ row.locked_at # Null
    /\ row.locked_at < now - JobRunningTimeoutSecs

\* C8: the statements of one requeue_stuck execution move every running row
\* whose locked_at is older than now - timeout out of running: the first one to
\* failed / 'timeout' when attempts >= max_attempts, the second one to retry /
\* 'timeout' with scheduled_at = now otherwise; every other row is unchanged
\* and no row is added or removed.
C8_RequeueStuck ==
    [][/\ (cpc = "requeue_failed" /\ cpc' = "requeue_retry") =>
            /\ DOMAIN jobs' = Ids
            /\ \A i \in Ids :
                  IF LeaseExpired(jobs[i]) /\ jobs[i].attempts >= jobs[i].max_attempts
                  THEN /\ jobs'[i].status = "failed"
                       /\ jobs'[i].last_error = "timeout"
                       /\ jobs'[i].attempts = jobs[i].attempts
                  ELSE jobs'[i] = jobs[i]
       /\ (cpc = "requeue_retry" /\ cpc' = "cleanup") =>
            /\ DOMAIN jobs' = Ids
            /\ \A i \in Ids :
                  IF LeaseExpired(jobs[i]) /\ jobs[i].attempts < jobs[i].max_attempts
                  THEN /\ jobs'[i].status = "retry"
                       /\ jobs'[i].last_error = "timeout"
                       /\ jobs'[i].scheduled_at = now
                       /\ jobs'[i].attempts = jobs[i].attempts
                  ELSE jobs'[i] = jobs[i]]_vars

\* C8 witness: the sweep has just put an expired lease back to retry with
\* last_error 'timeout' and scheduled_at = now while another row, leased
\* within the timeout, is still running.
C8_Witness ==
    /\ cpc = "cleanup"
    /\ \E i \in Ids :
          /\ jobs[i].status = "retry" /\ jobs[i].last_error = "timeout"
          /\ jobs[i].scheduled_at = now /\ jobs[i].locked_at = Null
    /\ \E j \in Ids :
          /\ jobs[j].status = "running"
          /\ jobs[j].locked_at >= now - JobRunningTimeoutSecs

\* ---- C9

\* C9: a row disappears from job_queue only in cleanup, and then only if its
\* status is done or failed, it was created and last updated more than
\* retention_hours ago and retention_hours is not 0; cleanup changes no row it
\* keeps.
C9_CleanupDeletesOnlyOldFinished ==
    [][/\ \A i \in Ids \ DOMAIN jobs' :
            /\ cpc = "cleanup"
            /\ jobs[i].status \in {"done", "failed"}
            /\ jobs[i].updated_at < now - job_retention_hours * SecsPerHour
            /\ jobs[i].created_at < now - job_retention_hours * SecsPerHour
            /\ job_retention_hours # 0
       /\ (cpc = "cleanup" /\ cpc' # "cleanup") =>
            \A i \in DOMAIN jobs' : i \in Ids /\ jobs'[i] = jobs[i]]_vars

\* C9 witness: cleanup has deleted a row (an id handed out earlier is gone)
\* while a finished row too recent to delete is still there.
C9_Witness ==
    /\ job_retention_hours = 1
    /\ \E i \in 1..(next_id - 1) : i \notin Ids
    /\ \E j \in Ids : jobs[j].status \in {"done", "failed"}

\* The retention-0 case of C9 does occur: cleanup has run over a finished row
\* older than an hour and kept it.
RetentionZeroKeeps ==
    /\ job_retention_hours = 0
    /\ cpc = "requeue_failed"
    /\ \E i \in Ids : /\ jobs[i].status \in {"done", "failed"}
                       /\ jobs[i].updated_at < now - SecsPerHour

\* ---- C10

\* Two distinct workers whose ensure_hls calls for the same media id
\* overlapped and have both returned Ok.
ConcurrentHlsPair(w, v) ==
    /\ w # v
    /\ v \in hconc[w] \/ w \in hconc[v]
    /\ hmedia[w] = hmedia[v]
    /\ hpc[w] = "ok" /\ hpc[v] = "ok"

\* C10: of two concurrent ensure_hls calls for the same media id at most one
\* spawns the transcoder, and once both have returned and no transcoder is
\* left running for that id, index.m3u8 is there for both to observe.
C10_SpawnedOnceBothObserve ==
    \A w, v \in Workers :
        ConcurrentHlsPair(w, v) =>
            /\ ~(hspawned[w] /\ hspawned[v])
            /\ (\A c \in children : c.media # hmedia[w]) => hmedia[w] \in playlist

\* ---- C11

\* C11: a worker whose ensure_hls call has returned Ok (its hls job is about
\* to be marked done) finds index.m3u8 in the media id's output directory.
C11_OkImpliesPlaylist ==
    \A w \in Workers : hpc[w] = "ok" => hmedia[w] \in playlist

\* ---- C12

\* Transcoder children still running.
RunningChildren == {c \in children : c.st = "running"}

\* C12: the number of running transcoder children never exceeds
\* max_hls_concurrency.
C12_ChildrenWithinPermits ==
    Cardinality(RunningChildren) <= max_hls_concurrency

\* ---- C13

\* Positions of rlog at which a request of bucket key k was admitted by the
\* bucket.
AdmittedAt(k) == {i \in 1..Len(rlog) : rlog[i][1] = k /\ rlog[i][3] = "next"}

\* The limit of bucket key k.
LimitOf(k) ==
    IF k[1] = "user" THEN rate_limit_user_per_minute ELSE rate_limit_ip_per_minute

\* The requests of key k admitted in the 60 seconds that begin at instant t.
AdmittedWithin(k, t) ==
    {i \in AdmittedAt(k) : rlog[i][2] >= t /\ rlog[i][2] < t + WindowSecs}

\* C13 as claimed: for every bucket key with limit L > 0, any interval of 60
\* seconds holds at most L admitted requests.
C13_AnyIntervalWithinLimit ==
    \A k \in BucketKeys :
        LimitOf(k) > 0 =>
            \A i \in AdmittedAt(k) :
                Cardinality(AdmittedWithin(k, rlog[i][2])) <= LimitOf(k)

\* C13 amended: any interval of 60 seconds holds at most 2 L admitted requests
\* of the key, and at most L of them fall into one window of the bucket (the
\* 60 seconds that begin at a request that set window_start).
C13_WindowWithinLimit ==
    \A k \in BucketKeys :
        LimitOf(k) > 0 =>
            /\ \A i \in AdmittedAt(k) :
                  Cardinality(AdmittedWithin(k, rlog[i][2])) <= 2 * LimitOf(k)
            /\ rate_limits[k] # NoEntry =>
                  Cardinality(AdmittedWithin(k, rate_limits[k].window_start)) <= LimitOf(k)

\* C13 witness: a bucket with limit 2 has admitted two requests in its window
\* and answered a third one 429.
C13_Witness ==
    \E k \in BucketKeys :
        /\ LimitOf(k) = 2
        /\ rate_limits[k] # NoEntry
        /\ Cardinality(AdmittedWithin(k, rate_limits[k].window_start)) = 2
        /\ \E i \in 1..Len(rlog) :
              /\ rlog[i][1] = k /\ rlog[i][3] = "429"
              /\ rlog[i][2] >= rate_limits[k].window_start

\* ---- C14

\* The request handled in this step, if it went to its bucket.
BucketStep(k) ==
    /\ Len(rlog') = Len(rlog) + 1
    /\ rlog'[Len(rlog')][1] = k
    /\ rlog'[Len(rlog')][3] \in {"next", "429"}

\* C14: a request that reaches bucket k with limit L while the window is open
\* (less than 60 s after window_start) is admitted and counted if fewer than L
\* requests were admitted in the window, and answered 429 otherwise, the
\* window staying as it is; a request at or after window_start + 60 s (or the
\* first one of the key) starts a new window at its own instant and is
\* admitted as the first request of it.  The count is the number of requests
\* admitted in the window and never exceeds L.
C14_WindowSequence ==
    /\ [](\A k \in BucketKeys :
            rate_limits[k] # NoEntry =>
                /\ rate_limits[k].count =
                       Cardinality(AdmittedWithin(k, rate_limits[k].window_start))
                /\ rate_limits[k].count <= LimitOf(k))
    /\ [][\A k \in BucketKeys :
            BucketStep(k) =>
                LET e == rate_limits[k]
                    f == rate_limits'[k]
                    response == rlog'[Len(rlog')][3]
                IN  IF e # NoEntry /\ instant - e.window_start < WindowSecs
                    THEN /\ f.window_start = e.window_start
                         /\ response = (IF e.count < LimitOf(k) THEN "next" ELSE "429")
                         /\ f.count = (IF e.count < LimitOf(k) THEN e.count + 1 ELSE e.count)
                    ELSE /\ f.window_start = instant
                         /\ response = "next"
                         /\ f.count = 1]_vars

\* C14 witness: with limit 2 a bucket admitted two requests, answered the
\* third 429, and the request 60 s after window_start opened a new window.
C14_Witness ==
    \E k \in BucketKeys :
        /\ LimitOf(k) = 2
        /\ Len(rlog) = 4
        /\ \A i \in 1..4 : rlog[i][1] = k
        /\ rlog[1][3] = "next" /\ rlog[2][3] = "next" /\ rlog[3][3] = "429"
        /\ rlog[4][3] = "next" /\ rlog[4][2] = rlog[1][2] + WindowSecs
        /\ rate_limits[k].window_start = rlog[4][2]
        /\ rate_limits[k].count = 1

\* A step of the auto-match run (any of its statements).
AutoMatchStepOf(r) ==
    \/ \E c, m \in ScoreLevels : AutoMatchStart(r, c, m)
    \/ NextRow(r)
    \/ HasManualMatch(r)
    \/ SearchAnime(r)
    \/ ClearCandidates(r)
    \/ ClearAutoMatch(r)
    \/ ScoreSubject(r)
    \/ PickBest(r)
    \/ EpisodeId(r)
    \/ UpsertAutoMatch(r)

AutoMatchStep == \E r \in Matchers : AutoMatchStepOf(r)

\* C15: no step of an auto-match run replaces or deletes a media's 'manual'
\* match, also when set_manual_match runs between the run's manual check and
\* its upsert.
C15_RunKeepsManual ==
    [][AutoMatchStep =>
          \A m \in MediaIds :
              media_matches[m].method = "manual" => media_matches'[m] = media_matches[m]]_vars

\* C16: every candidate row a run step persists has confidence >=
\* min_candidate_score, and every 'auto' match a run step writes has
\* confidence >= min_confidence.
C16_PersistedAboveThresholds ==
    [][\A r \in Matchers :
          AutoMatchStepOf(r) =>
              /\ \A row \in match_candidates' \ match_candidates :
                    row.confidence >= aopts[r].min_candidate_score
              /\ \A m \in MediaIds :
                    (media_matches'[m] # media_matches[m]
                        /\ media_matches'[m].method = "auto")
                        => media_matches'[m].confidence >= aopts[r].min_confidence]_vars

\* C16 witness: a run with thresholds (1, 2) has searched, left out a subject
\* scored 0, kept a candidate scored 1 and written the auto match scored 2.
C16_Witness ==
    /\ aruns["worker"] = 1
    /\ aopts["worker"] = [min_candidate_score |-> 1, min_confidence |-> 2]
    /\ \E m \in MediaIds :
          /\ media_matches[m] = [method |-> "auto", subject_id |-> 2, confidence |-> 2]
          /\ {row \in match_candidates : row.media_id = m}
                = {[media_id |-> m, subject_id |-> 2, confidence |-> 2]}
          /\ 1 \in bangumi_subjects
    /\ \E m \in MediaIds :
          /\ media_matches[m].method # "auto"
          /\ [media_id |-> m, subject_id |-> 1, confidence |-> 1] \in match_candidates

\* C17: when a scan_and_index transaction commits, the media_files rows are
\* exactly the entries its scan returned, each with its scan_token, and every
\* media_parses row belongs to a media_files row.
C17_CommitMirrorsScan ==
    [][\A s \in Scanners :
          ScanCommit(s) =>
              /\ \A id \in MediaIds :
                    media_files'[id] =
                        IF \E p \in sall[s] : media_id_from_path(p) = id
                        THEN stoken[s] ELSE NoToken
              /\ \A id \in MediaIds :
                    media_parses'[id] # NoKey => media_files'[id] # NoToken]_vars

\* The path of the last request with ".." and the links that exist resolved,
\* whether or not its target exists.
RECURSIVE Resolved(_, _)
Resolved(done, rest) ==
    IF rest = <<>> THEN done
    ELSE IF Head(rest) = ".." THEN Resolved(Parent(done), Tail(rest))
    ELSE LET next == done \o <<Head(rest)>>
         IN  IF IsLink(next) THEN Resolved(<<>>, LinkTarget(next) \o Tail(rest))
             ELSE Resolved(next, Tail(rest))

OutsideRoot(req) == ~StartsWith(Resolved(<<>>, Join(HlsRoot, req.id, req.file)), HlsRoot)

\* C18: with the HLS root in place, a request (with a valid token) whose
\* resolved path is not inside the root is answered 403 whether or not the
\* target exists, and no file outside the root is opened.
C18_OutsideIsForbidden ==
    /\ (fs_root /\ serves > 0 /\ hls_status # "401" /\ OutsideRoot(hls_req))
          => hls_status = "403"
    /\ hls_opened # NoPath => StartsWith(hls_opened, HlsRoot)

\* C19: a request to an admin-only route with a valid token of role level
\* below 3 is answered 404 and changes neither the job queue nor the matches;
\* one with a missing or invalid token is answered 401.
C19_NonAdminHidden ==
    [][\A e \in Callers :
          adm_calls'[e] # adm_calls[e] =>
              /\ (adm_req'[e].token.kind = "valid" /\ adm_req'[e].token.role_level < 3)
                    => /\ adm_status'[e] = "404"
                       /\ jobs' = jobs
                       /\ media_matches' = media_matches
              /\ adm_req'[e].token.kind # "valid" => adm_status'[e] = "401"]_vars

\* The requests inside the in-flight middleware.
InsideMiddleware == {c \in Conns : fpc[c] = "in"}

\* C20: in_flight always equals the number of requests inside the in-flight
\* middleware (so it is 0 when there is none); an entry adds exactly one, an
\* exit by any path takes exactly one away and never from 0.
C20_CounterMatchesRequests ==
    /\ [](in_flight = Cardinality(InsideMiddleware))
    /\ [][\A c \in Conns :
             /\ (fpc[c] = "out" /\ fpc'[c] = "in") => in_flight' = in_flight + 1
             /\ (fpc[c] = "in" /\ fpc'[c] = "out")
                   => in_flight > 0 /\ in_flight' = in_flight - 1]_vars

\* C20 witness: requests have left by every path, the last of them are gone,
\* and the counter is back at 0.
C20_Witness ==
    /\ fdone = ExitPaths
    /\ fentries = MaxEntries
    /\ InsideMiddleware = {}
    /\ in_flight = 0

\* ---- C21

\* e's GET /api/stream/:id is handled in this step, up to its response or up
\* to the call of enqueue_job.
StreamAsked(e) == stream_calls'[e] = stream_calls[e] + 1

\* e's pending GET /api/stream/:id is answered in this step.
StreamAnswered(e) == stream_resp[e].status = "pending" /\ stream_resp'[e].status # "pending"

\* The enqueue_job call of e's pending GET /api/stream/:id returns in this
\* step.
StreamEnqueued(e) ==
    stream_resp[e].status = "pending" /\ epc[e] # "idle" /\ epc'[e] = "idle"

\* The request carries a user's token and an id that names a media file.
StreamAdmitted(req) == req.token.kind = "valid" /\ req.id # BlankId

\* C21: an authenticated GET /api/stream/:id answers 200 with playlist_url
\* /hls/<token>/<id>/index.m3u8 exactly when index.m3u8 exists for the id;
\* otherwise it enqueues and answers 202 with the id of an hls job whose dedup
\* key is the media id, and a request repeated while the job of an earlier 202
\* is active gets that same job id (it has added no row).
C21_StreamContract ==
    [][\A e \in Callers :
          /\ (StreamAsked(e) /\ StreamAdmitted(stream_req'[e])) =>
                /\ (stream_resp'[e].status = "200") <=> (stream_req'[e].id \in playlist)
                /\ stream_resp'[e].status = "200" =>
                      /\ stream_resp'[e].playlist_url.token = stream_req'[e].token
                      /\ stream_resp'[e].playlist_url.id = stream_req'[e].id
                      /\ stream_resp'[e].playlist_url.file = "index.m3u8"
                      /\ jobs' = jobs
                /\ stream_resp'[e].status # "200" => stream_resp'[e].status = "pending"
          /\ StreamAnswered(e) =>
                /\ stream_resp'[e].status = "202"
                /\ stream_resp'[e].job_id \in DOMAIN jobs
                /\ jobs[stream_resp'[e].job_id].job_type = "hls"
                /\ jobs[stream_resp'[e].job_id].dedup_key = stream_req[e].id
          /\ StreamEnqueued(e) =>
                \A f \in Callers \ {e} :
                      ( /\ stream_resp[f].status = "202"
                        /\ stream_req[f].id = stream_req[e].id
                        /\ jobs'[stream_resp[f].job_id].status \in ActiveStatuses
                        /\ equiet'[e] )
                      => eret'[e] = stream_resp[f].job_id]_vars

\* ---- C22

\* C22: a job status stream yields no event after an event whose status is
\* done or failed: such an event is the last one of its stream.
C22_NoEventAfterTerminal ==
    \A e \in Callers : \A i \in 1..Len(sse_events[e]) :
        IsTerminal(sse_events[e][i]) => i = Len(sse_events[e])

\* ---- C23

\* The episode string has a digit.
HasDigit(str) == \E i \in 1..Len(str) : IsAsciiDigit(str[i])

\* The numeric value of the episode string, when it parses.
Target == parse_episode_number(episode_str)

\* How far the i-th cached episode's ep, or its sort when ep is absent, is
\* from the target.
Distance(i) ==
    LET value == IF episodes[i].ep # NoNumber THEN episodes[i].ep ELSE episodes[i].sort IN
      IF value >= Target THEN value - Target ELSE Target - value

Exact == {i \in 1..Len(episodes) : Distance(i) <= ExactDiff}

Near == {i \in 1..Len(episodes) : Distance(i) <= MaxDiff}

\* C23: for an episode string that parses to t, match_episode_id returns the
\* first cached episode within 0.01 of t; failing that, an episode of smallest
\* difference provided it is at most 1.0; and no episode when none is within
\* 1.0 or when the string has no digit.
C23_MatchEpisode ==
    matched # Pending =>
        /\ ~HasDigit(episode_str) => matched = Null
        /\ Target # NoNumber =>
              IF Exact # {}
              THEN matched = EpisodeIdAt(CHOOSE i \in Exact : \A k \in Exact : i <= k)
              ELSE IF Near # {}
              THEN \E i \in Near :
                      /\ matched = EpisodeIdAt(i)
                      /\ \A k \in 1..Len(episodes) : Distance(i) <= Distance(k)
              ELSE matched = Null

\* C23 witness: no episode is within 0.01 of the target and the second
\* episode, nearer than the first and within 1.0, is returned.
C23_Witness ==
    /\ matched = EpisodeIdAt(2)
    /\ Target # NoNumber
    /\ Exact = {}
    /\ Distance(2) < Distance(1)
    /\ episodes[2].ep = NoNumber

\* ---- C24

\* char::to_uppercase of the titles' characters (U+0130 is upper case).
UpperChar(ch) ==
    CASE ch = "a" -> "A"
      [] ch = "b" -> "B"
      [] ch = "i" -> "I"
      [] OTHER -> ch

\* str::to_uppercase and str::to_lowercase.
Uppercase(value) == [i \in 1..Len(value) |-> UpperChar(value[i])]

RECURSIVE Lowercase(_)
Lowercase(value) ==
    IF value = <<>> THEN <<>> ELSE to_lowercase(Head(value)) \o Lowercase(Tail(value))

\* Two scores are the same number.
SameScore(x, y) == x.num * y.den = y.num * x.den

\* C24: normalize_title is idempotent and does not depend on the case of its
\* argument; similarity is symmetric, 1 for equal non-empty strings and 0
\* when either string is empty.
C24_TitleAlgebra ==
    title_out.done =>
        /\ normalize_title(title_out.norm_a) = title_out.norm_a
        /\ normalize_title(Uppercase(title_a)) = title_out.norm_a
        /\ normalize_title(Lowercase(title_a)) = title_out.norm_a
        /\ SameScore(title_out.sim_ab, title_out.sim_ba)
        /\ title_a # <<>> => SameScore(title_out.sim_aa, Score(1, 1))
        /\ (title_a = <<>> \/ title_b = <<>>) => SameScore(title_out.sim_ab, Score(0, 1))

\* ---- C26

\* C26: a row whose status is done or failed keeps its status, attempts,
\* result and last_error for as long as it exists; it can only be deleted.
C26_FinishedRowsFrozen ==
    [][\A i \in DOMAIN jobs :
          (jobs[i].status \in {"done", "failed"} /\ i \in DOMAIN jobs') =>
              /\ jobs'[i].status = jobs[i].status
              /\ jobs'[i].attempts = jobs[i].attempts
              /\ jobs'[i].result = jobs[i].result
              /\ jobs'[i].last_error = jobs[i].last_error]_vars

\* ---- C27

\* w reports the outcome of its job in this step (complete_job or fail_job).
Reports(w) == wpc[w] = "process" /\ wpc'[w] = "poll"

\* The cleanup loop runs one of the two statements of requeue_stuck_jobs.
Requeues == cpc \in {"requeue_failed", "requeue_retry"} /\ cpc' # cpc

\* w still holds the lease of the row it reports on.
HoldsLease(w) ==
    /\ wjob[w].id \in DOMAIN jobs
    /\ jobs[wjob[w].id].status = "running"
    /\ jobs[wjob[w].id].locked_by = w

\* C27: a running row leaves running only by a complete or fail of the worker
\* in its locked_by, or by requeue_stuck; and a complete or fail of a worker
\* that no longer holds the lease leaves the row as it is.
C27_OnlyLeaseHolderReports ==
    [][/\ \A i \in DOMAIN jobs :
             (jobs[i].status = "running" /\ (i \notin DOMAIN jobs' \/ jobs'[i].status # "running")) =>
                 \/ Requeues
                 \/ Reports(jobs[i].locked_by) /\ wjob[jobs[i].locked_by].id = i
       /\ \A w \in Workers :
             (Reports(w) /\ ~HoldsLease(w)) => jobs' = jobs]_vars

\* ---- C28

\* C28: a row is running exactly when locked_by and locked_at are both set; a
\* row in queued, retry, done or failed has both cleared.
C28_LockedIffRunning ==
    \A i \in DOMAIN jobs :
        /\ jobs[i].status = "running" <=>
              (jobs[i].locked_by # NoWorker /\ jobs[i].locked_at # Null)
        /\ jobs[i].status # "running" =>
              (jobs[i].locked_by = NoWorker /\ jobs[i].locked_at = Null)

\* C28 witness: a row that was leased and finished has its lock cleared while
\* another row is running under a worker's lock.
C28_Witness ==
    \E i, k \in DOMAIN jobs :
        /\ jobs[i].status = "done" /\ jobs[i].attempts > 0
        /\ jobs[i].locked_by = NoWorker /\ jobs[i].locked_at = Null
        /\ jobs[k].status = "running"
        /\ jobs[k].locked_by \in Workers /\ jobs[k].locked_at # Null

\* ---- C29

\* C29: the row fetch_next_job leases was queued or retry with scheduled_at
\* no later than now and attempts below max_attempts; the lease adds exactly
\* 1 to attempts, sets status running and touches no other row; its SELECT
\* changes no row; and while no row is eligible no fetch_next_job takes one.
C29_LeaseOnlyEligible ==
    [][\A w \in Workers :
          /\ Leases(w) =>
                LET i == wjob[w].id IN
                  /\ i \in DOMAIN jobs
                  /\ jobs[i].status \in {"queued", "retry"}
                  /\ jobs[i].scheduled_at <= now
                  /\ jobs[i].attempts < jobs[i].max_attempts
                  /\ jobs'[i].attempts = jobs[i].attempts + 1
                  /\ jobs'[i].status = "running"
                  /\ wjob'[w].attempts = jobs'[i].attempts
                  /\ DOMAIN jobs' = DOMAIN jobs
                  /\ \A k \in DOMAIN jobs \ {i} : jobs'[k] = jobs[k]
          /\ (wpc[w] = "poll" /\ wpc'[w] = "leasing") =>
                (jobs' = jobs /\ Eligible(jobs[wjob'[w].id]))
          /\ (wpc[w] = "poll" /\ \A i \in DOMAIN jobs : ~Eligible(jobs[i])) =>
                (wpc'[w] = "poll" /\ wjob'[w] = NoJob)]_vars

\* C29 witness: a retry row whose scheduled_at has come is leased again, for
\* its second attempt.
C29_Witness ==
    \E i \in DOMAIN jobs :
        /\ jobs[i].status = "running"
        /\ jobs[i].attempts = 2
        /\ jobs[i].last_error = "boom"
        /\ \E w \in Workers : wpc[w] = "process" /\ wjob[w].id = i /\ jobs[i].locked_by = w

\* ---- C30

\* e's enqueue_job inserts a row in this step.
Inserts(e) == epc[e] # "idle" /\ epc'[e] = "idle" /\ next_id' = next_id + 1

\* C30: a row enqueue_job creates for a call with a dedup key stores that key.
C30_KeyedCallKeyedRow ==
    [][\A e \in Callers :
          (Inserts(e) /\ ereq[e].dedup_key # NoKey) =>
              /\ next_id \in DOMAIN jobs'
              /\ jobs'[next_id].dedup_key = ereq[e].dedup_key]_vars

\* ---- C25

\* Every row of the queue is done or failed.
AllFinished == \A i \in DOMAIN jobs : jobs[i].status \in {"done", "failed"}

\* C25: under fair worker and cleanup loops and handlers that return, every
\* enqueued job ends up done or failed (or deleted after that) and stays so:
\* no row is queued, running or retry for ever.
C25_EveryJobFinishes == <>[]AllFinished

\* ---- C31

\* e's enqueue_job call with a dedup key returns in this step.
KeyedReturn(e) == epc[e] # "idle" /\ epc'[e] = "idle" /\ ereq[e].dedup_key # NoKey

LeavesJob(w) == wpc[w] = "process" /\ wpc'[w] # "process"

\* The call appended to the log in this step (defined when one is).
LastReport == reports'[Len(reports')]

\* C32: a worker leaves a leased job only after process_job has returned, and
\* in that step makes exactly one call for it: complete_job with the handler's
\* result after Ok, fail_job with the attempts and max_attempts of the lease and
\* the handler's message after Err, and fail_job with "unknown job type: <type>"
\* for a type other than index, auto-match and hls; no call is made in any
\* other step, and the job in hand is the one the lease wrote.
C32_ReportsOnceByOutcome ==
    [][/\ \A w \in Workers :
             /\ LeavesJob(w) =>
                   /\ whout[w] # NoOutcome
                   /\ Len(reports') = Len(reports) + 1
                   /\ SubSeq(reports', 1, Len(reports)) = reports
                   /\ LastReport.worker = w
                   /\ LastReport.job_id = wjob[w].id
                   /\ LastReport.text = whout[w].text
                   /\ (whout[w].kind = "ok") => LastReport.call = "complete_job"
                   /\ (whout[w].kind = "err") =>
                         /\ LastReport.call = "fail_job"
                         /\ LastReport.attempts = wjob[w].attempts
                         /\ LastReport.max_attempts = wjob[w].max_attempts
                   /\ (wjob[w].job_type \notin {"index", "auto-match", "hls"}) =>
                         /\ LastReport.call = "fail_job"
                         /\ LastReport.text = "unknown job type: " \o wjob[w].job_type
             /\ (wpc[w] = "leasing" /\ wpc'[w] = "process") =>
                   /\ wjob'[w].attempts = jobs'[wjob'[w].id].attempts
                   /\ wjob'[w].max_attempts = jobs'[wjob'[w].id].max_attempts
                   /\ wjob'[w].job_type = jobs'[wjob'[w].id].job_type
             /\ (wpc[w] = "process" /\ wpc'[w] = "process") => wjob'[w] = wjob[w]
       /\ (reports' # reports) => \E w \in Workers : LeavesJob(w)]_vars

\* C32 witness: a job of an unknown type has been failed twice, with the
\* attempts of its first and of its second lease, and another job has been
\* completed with its handler's result.
C32_Witness ==
    \E i, j, k \in DOMAIN reports :
        /\ i < j
        /\ reports[i].call = "fail_job" /\ reports[j].call = "fail_job"
        /\ reports[i].job_id = reports[j].job_id
        /\ reports[i].text = "unknown job type: thumb"
        /\ reports[j].text = "unknown job type: thumb"
        /\ reports[i].attempts = 1 /\ reports[j].attempts = 2
        /\ reports[j].max_attempts = 2
        /\ reports[k].call = "complete_job" /\ reports[k].text = "summary"

\* ---- C33

\* w's fetch_next_job selects a row in this step.
SelectsRow(w) == wpc[w] = "poll" /\ wpc'[w] = "leasing"

\* The row meets the WHERE clause as the claim states it.
EligibleRow(i) ==
    /\ jobs[i].status \in {"queued", "retry"}
    /\ jobs[i].scheduled_at <= now
    /\ jobs[i].attempts < jobs[i].max_attempts

\* A retry row whose backoff has elapsed.
RetryDue(i) == jobs[i].status = "retry" /\ jobs[i].scheduled_at <= now

\* C33 (first part): the row a fetch_next_job selects for its lease is eligible,
\* and no eligible row that another fetch has not locked is older by created_at.
C33_OldestEligible ==
    [][\A w \in Workers :
          SelectsRow(w) =>
              /\ EligibleRow(wjob'[w].id)
              /\ \A k \in Ids :
                    (EligibleRow(k) /\ ~Locked(k)) =>
                        jobs[wjob'[w].id].created_at <= jobs[k].created_at]_vars

\* C33: the first part, and its consequence: whenever a fetch selects a queued
\* row, no retry row with an elapsed backoff that was created before that row
\* is left waiting (rows another fetch holds locked are being leased).
C33_RetryBeforeLaterQueued ==
    [][\A w \in Workers :
          SelectsRow(w) =>
              /\ EligibleRow(wjob'[w].id)
              /\ \A k \in Ids :
                    (EligibleRow(k) /\ ~Locked(k)) =>
                        jobs[wjob'[w].id].created_at <= jobs[k].created_at
              /\ (jobs[wjob'[w].id].status = "queued") =>
                    ~\E r \in Ids :
                        /\ RetryDue(r)
                        /\ ~Locked(r)
                        /\ jobs[r].created_at < jobs[wjob'[w].id].created_at]_vars

\* ---- C34

\* w's ensure_hls call spawns the transcoder in this step.
Spawns(w) == spawns'[hmedia[w]] = spawns[hmedia[w]] + 1 /\ hpc[w] = "spawn"

\* w's call returns success in this step without having spawned anything or
\* touched the lock.
SkipsOk(w) ==
    /\ hpc'[w] = "ok"
    /\ ~hspawned'[w]
    /\ spawns' = spawns
    /\ children' = children
    /\ lockfile' = lockfile

\* C34: ensure_hls reaches the spawn only through an exclusive create (the
\* lock file was absent before the create and is the caller's after it), and
\* every spawn is made from there; a create that finds the lock with a timeout
\* of 0, or a stat that finds it not older than lock_timeout_secs, makes the
\* call return success with nothing spawned; a stat that finds it older makes
\* the call delete the lock and go back to the exclusive create.
C34_SpawnOnlyAfterExclusiveCreate ==
    [][/\ \A m \in MediaIds :
             spawns'[m] # spawns[m] => \E w \in Workers : hmedia[w] = m /\ Spawns(w)
       /\ \A w \in Workers :
             LET m == hmedia[w] IN
             /\ (hpc[w] # "spawn" /\ hpc'[w] = "spawn") =>
                   /\ hpc[w] = "lock"
                   /\ lockfile[m] = NoLock
                   /\ lockfile'[m] = [mtime |-> now, by |-> w]
             /\ (hpc[w] = "lock" /\ hpc'[w] # "lock" /\ lockfile[m] # NoLock) =>
                   IF hls_lock_timeout_secs = 0
                   THEN SkipsOk(w)
                   ELSE hpc'[w] = "stale" /\ lockfile' = lockfile /\ spawns' = spawns
             /\ (hpc[w] = "stale" /\ hpc'[w] # "stale" /\ lockfile[m] # NoLock) =>
                   IF now - lockfile[m].mtime <= hls_lock_timeout_secs
                   THEN SkipsOk(w)
                   ELSE hpc'[w] = "remove" /\ spawns' = spawns
             /\ (hpc[w] = "remove" /\ hpc'[w] # "remove") =>
                   /\ lockfile'[m] = NoLock
                   /\ hpc'[w] = "lock"
                   /\ spawns' = spawns]_vars

\* C34 witness: a call found the lock of an earlier call older than the
\* timeout, deleted it, created its own and spawned a second transcoder while
\* the first one is still there.
C34_Witness ==
    \E w \in Workers :
        /\ hpc[w] = "ok" /\ hspawned[w]
        /\ lockfile[hmedia[w]] # NoLock
        /\ lockfile[hmedia[w]].by = w
        /\ lockfile[hmedia[w]].mtime > hls_lock_timeout_secs
        /\ hls_lock_timeout_secs > 0
        /\ \E c \in children : c.media = hmedia[w] /\ c.by # w

\* ---- C35

\* The lock file of media id m is the one w's call created.
LockOf(tbl, m, w) == tbl[m] # NoLock /\ tbl[m].by = w

\* C35: while a transcoder child is running, the .hls.lock of its media id is
\* present and is the one created by the call that spawned the child; a lock is
\* removed only by the waiter of the exited child that its creator spawned, or
\* by its creator when the spawn failed, before the call returns the error.
C35_LockHeldWhileChildRuns ==
    [][/\ \A c \in children' : c.st = "running" => LockOf(lockfile', c.media, c.by)
       /\ \A m \in MediaIds :
             (lockfile[m] # NoLock /\ lockfile'[m] # lockfile[m]) =>
                 \/ \E c \in children :
                       /\ c.media = m /\ c.by = lockfile[m].by /\ c.st = "exited"
                       /\ c \notin children'
                 \/ \E w \in Workers :
                       /\ hmedia[w] = m /\ lockfile[m].by = w
                       /\ hpc[w] = "spawn" /\ hpc'[w] = "err"]_vars

\* ---- C36

\* The middleware handles a request in this step.
Handles == Len(rlog') = Len(rlog) + 1

\* The request handled in this step: its bucket key and its response.
HandledKey == rlog'[Len(rlog')][1]
HandledResponse == rlog'[Len(rlog')][3]

\* The requests with that bucket key (the key of a request with a decodable
\* user id does not show its IP).
HandledRequests == {req \in HttpRequests : BucketKey(req) = HandledKey}

\* C36: a request whose user id is in the user block set is answered 403;
\* otherwise one whose user id is in the user allow set passes, even from a
\* blocked IP; otherwise one from a blocked IP is answered 403; otherwise one
\* from an allowed IP passes; otherwise one whose limit is 0 passes; only the
\* remaining requests are counted against their bucket (answered by next or
\* 429, their bucket present and seen now), and a request that is passed or
\* refused before the bucket leaves rate_limits as it was.
C36_DecisionOrder ==
    [][Handles =>
          \E req \in HandledRequests :
              LET known == req.user # NoUser
                  limit == IF known THEN rate_limit_user_per_minute
                           ELSE rate_limit_ip_per_minute
              IN  IF known /\ req.user \in rate_limit_block_users
                  THEN HandledResponse = "403" /\ rate_limits' = rate_limits
                  ELSE IF known /\ req.user \in rate_limit_allow_users
                  THEN HandledResponse = "pass" /\ rate_limits' = rate_limits
                  ELSE IF req.ip \in rate_limit_block_ips
                  THEN HandledResponse = "403" /\ rate_limits' = rate_limits
                  ELSE IF req.ip \in rate_limit_allow_ips
                  THEN HandledResponse = "pass" /\ rate_limits' = rate_limits
                  ELSE IF limit = 0
                  THEN HandledResponse = "pass" /\ rate_limits' = rate_limits
                  ELSE /\ HandledResponse \in {"next", "429"}
                       /\ rate_limits'[HandledKey] # NoEntry
                       /\ rate_limits'[HandledKey].last_seen = instant]_vars

\* C36 witness: with a user in the allow set and the IP in the block set, the
\* user's request has passed and an anonymous request from that IP has been
\* answered 403; no bucket exists.
C36_Witness ==
    /\ \E u \in rate_limit_allow_users \ rate_limit_block_users :
          \E i \in DOMAIN rlog : rlog[i][1] = <<"user", u>> /\ rlog[i][3] = "pass"
    /\ \E a \in rate_limit_block_ips :
          \E j \in DOMAIN rlog : rlog[j][1] = <<"ip", a>> /\ rlog[j][3] = "403"
    /\ \A k \in BucketKeys : rate_limits[k] = NoEntry

\* ---- C37

\* C37: the count of every bucket is at most the limit of its key (the user
\* limit for a user key, the IP limit for an IP key), and a request answered
\* 429 finds its bucket there and leaves its count and window_start as they
\* were, setting last_seen to now.
C37_CountWithinLimit ==
    [][/\ \A k \in BucketKeys :
             rate_limits'[k] # NoEntry => rate_limits'[k].count <= LimitOf(k)
       /\ (Handles /\ HandledResponse = "429") =>
             /\ rate_limits[HandledKey] # NoEntry
             /\ rate_limits'[HandledKey].count = rate_limits[HandledKey].count
             /\ rate_limits'[HandledKey].window_start = rate_limits[HandledKey].window_start
             /\ rate_limits'[HandledKey].last_seen = instant]_vars

\* C37 witness: a request has been answered 429 some time after its bucket's
\* window began; the bucket's count is at its limit.
C37_Witness ==
    \E i \in DOMAIN rlog :
        LET k == rlog[i][1] IN
        /\ rlog[i][3] = "429"
        /\ rate_limits[k] # NoEntry
        /\ rate_limits[k].count = LimitOf(k)
        /\ LimitOf(k) = 2
        /\ rate_limits[k].last_seen > rate_limits[k].window_start

\* The ids of the entries scan_media returned to scanner s.
ScannedIds(s) == {media_id_from_path(p) : p \in sall[s]}

\* C38: scan_and_index re-parses and rewrites the parse row of a scanned file
\* exactly when no media_files row existed for its id or the stored
\* (size, modified_at) differs from the scanned values; the parse row of
\* every other scanned file is the same after the commit as before it.
C38_ReparseOnlyWhenChanged ==
    [][\A s \in Scanners :
          LET p == FirstEntry(sentries[s])
              id == media_id_from_path(p)
          IN  /\ (spc[s] = "meta" /\ spc'[s] = "upsert") =>
                    (sneeds'[s] <=>
                        \/ Visible(s, id) = NoToken
                        \/ fetch_media_meta(s, id) #
                              [size |-> ssize[s][p],
                               modified_at |-> file_meta[p].modified_at])
              /\ (spc[s] = "upsert" /\ spc'[s] \in {"meta", "delete"}) =>
                    /\ id \in sparsed'[s] <=> sneeds[s]
                    /\ sparsed'[s] \ {id} = sparsed[s] \ {id}
              /\ spc[s] = "commit" =>
                    \A done \in ScannedIds(s) \ sparsed[s] :
                        media_parses'[done] = media_parses[done]]_vars

\* C38 witness: a scan about to commit leaves one scanned row's parse alone
\* and re-parses another whose stored size or mtime differs.
C38_Witness ==
    \E s \in Scanners :
        /\ spc[s] = "commit"
        /\ \E kept \in ScannedIds(s) \ sparsed[s] : media_parses[kept] # NoKey
        /\ \E again \in ScannedIds(s) \cap sparsed[s] :
              /\ media_files[again] # NoToken
              /\ media_meta[again] # smeta[s][again]

\* The call of scanner s returns an error in this step: its transaction is
\* dropped without commit.
ScanReturnsErr(s) == spc[s] # "idle" /\ spc'[s] = "idle" /\ ~ScanCommit(s)

\* C39: when scan_and_index fails at an entry (the file's metadata cannot be
\* read, or a statement returns a database error), the step leaves the
\* committed media_files and media_parses rows as they are and discards every
\* write of the transaction; committed rows change only in a step that commits.
C39_FailedScanCommitsNothing ==
    [][/\ \A s \in Scanners :
             ScanReturnsErr(s) =>
                 /\ UNCHANGED <<media_files, media_meta, media_parses>>
                 /\ \A id \in MediaIds : swrites'[s][id] = Untouched
                 /\ sparsed'[s] = {}
       /\ (\A s \in Scanners : ~ScanCommit(s)) =>
             UNCHANGED <<media_files, media_meta, media_parses>>]_vars

\* C39 witness: a scan that failed after it had upserted one entry and before
\* it visited the last one, and the tables are as empty as before the call.
C39_Witness ==
    \E s \in Scanners :
        /\ spc[s] = "idle"
        /\ sentries[s] # {}
        /\ sentries[s] # sall[s]
        /\ \A id \in MediaIds : media_files[id] = NoToken /\ media_parses[id] = NoKey

\* Run r ends the candidate loop of its current row in this step: the last
\* subject of search.data is scored, or search.data was empty.
EndsCandidateLoop(r) ==
    \/ apc[r] = "score" /\ apc'[r] = "best"
    \/ apc[r] = "clear_auto" /\ apc'[r] = "row"

\* The subjects of this run's search whose score reaches min_candidate_score.
KeptSubjects(r) ==
    {sid \in DOMAIN asearch[r] : KeepCandidate(asearch[r][sid], aopts[r])}

\* C40: when a run has processed the candidates of a media item whose search
\* succeeded, the item's match_candidates rows are exactly the subjects this
\* run's search returned with a score >= min_candidate_score.
C40_CandidatesReplacedWholesale ==
    [][\A r \in Matchers :
          EndsCandidateLoop(r) =>
              {row.subject_id : row \in {x \in match_candidates' : x.media_id = acur[r]}}
                  = KeptSubjects(r)]_vars

====
